---- MODULE Spec2Model ----
(***************************************************************************)
(* litellm-wrapper-ui: the chat front-end of main_dev.py / auth_dev.py     *)
(* (developer demo, with usage limits and image generation) and of         *)
(* v1.2.0/main.py / v1.2.0/auth.py (no limits, no image path).             *)
(*                                                                         *)
(* Text is a sequence of atoms: the atom " " is whitespace, ":" and "."    *)
(* are the separator characters the code looks at, every other atom is a   *)
(* run of non-blank characters.  Concatenation of text is \o.              *)
(*                                                                         *)
(* A request handler runs without interruption between two awaits (the     *)
(* event loop is cooperative), so every action below is one such segment.  *)
(***************************************************************************)
EXTENDS Integers, Sequences, FiniteSets, TLC

VARIABLES
    version,         \* which main.py is running: "dev", "v1.2.0" or "v1.0.0"
    users,           \* auth(_dev).py  users = {}        id -> user
    user_usage,      \* auth_dev.py    user_usage = {}   email -> usage record
    chat_sessions,   \* main*.py       chat_sessions = {}  session_id -> turns
    response_cache,  \* main*.py       response_cache = {} as its item list, in dict order
    cache_stamp,     \* history: key -> serial number of the insertion that put it in the dict
    cache_clock,     \* history: number of insertions of a new key so far
    cache_origin,    \* history: key -> the request whose reply the dict holds under it
    session,         \* request.session of each browser: [user, oauth_state]
    next_state,      \* number of state tokens secrets.token_urlsafe has produced
    cb,              \* the /auth/callback request in flight of each browser
    consumed,        \* history: the state tokens successful callbacks presented
    req,             \* the /api/chat request slots
    increments,      \* history: email -> number of increment_usage calls made for it
    gateway_calls,   \* history: email -> number of requests sent to the gateway for it
    api              \* the last answer of an endpoint that returns without an await pending

vars == <<version, users, user_usage, chat_sessions, response_cache, cache_stamp,
          cache_clock, session, next_state, cb, req, increments, api,
          gateway_calls, cache_origin, consumed>>

(***************************************************************************)
(* Bounds of the model.                                                    *)
(***************************************************************************)
MaxTurns == 4        \* turns in all chat sessions together
MaxTokens == 2       \* state tokens issued by login_google
MaxNewSessions == 1  \* sessions made by /api/new-session
MaxCalls == 5        \* direct calls of increment_usage per email (SpecUsage)

(***************************************************************************)
(* Program constants.                                                      *)
(***************************************************************************)
DEMO_REQUEST_LIMIT == 2
DEMO_TOKEN_LIMIT == 100
MAX_CACHE == 100          \* if len(response_cache) > 100
EVICT_COUNT == 20         \* list(response_cache.keys())[:20]
max_file_chars == 4000
IMAGE_TOKENS == 100       \* increment_usage(user['email'], 100)
Absent == 0               \* a query parameter or session key that is not there (None)

ADMIN_EMAIL == "dinhdobathi@gmail.com"
DEMO_EMAIL == "demo@example.com"

\* Python's None where text is expected; no text of the model equals it.
None == <<"\\None">>
\* Python truthiness of an Optional[str].
Truthy(s) == s # None /\ s # <<>>
\* A JSON value that is neither a string nor null nor empty where the code expects
\* text: a list of content parts, a number.  It is truthy and has no split().
NonString == <<"\\NonString">>
\* A JSON object {"message": <message>} where the code expects text.
ErrorObject(message) == <<"\\object">> \o message
IsObject(v) == v # <<>> /\ v[1] = "\\object"
\* A key the dict does not have.
NoKey == <<"\\absent">>

(***************************************************************************)
(* Text helpers.                                                           *)
(***************************************************************************)
\* len(s.split()): the number of maximal runs of non-blank atoms.
WordCount(s) ==
    Cardinality({i \in 1..Len(s) : s[i] # " " /\ (i = 1 \/ s[i - 1] = " ")})

Range(s) == {s[i] : i \in 1..Len(s)}

\* str.lower() on the atoms the model uses.
Lower(a) == CASE a = "DALL-E-3" -> "dall-e-3"
              [] a = "TXT" -> "txt"
              [] OTHER -> a

\* file_name.lower().split('.')[-1]
file_extension(file_name) ==
    LET dots == {i \in 1..Len(file_name) : file_name[i] = "."}
        last == IF dots = {} THEN 0 ELSE CHOOSE i \in dots : \A j \in dots : j <= i
    IN  [i \in 1..(Len(file_name) - last) |-> Lower(file_name[last + i])]

(***************************************************************************)
(* Usage tracker (auth_dev.py).  The operators take the usage table and    *)
(* return the table the call leaves behind.                                *)
(***************************************************************************)
is_admin_user(email) == email = ADMIN_EMAIL

ZeroUsage == [request_count |-> 0, token_count |-> 0]

get_user_usage_mut_reset(uu, email) ==
    [e \in DOMAIN uu \cup {email} |-> IF e = email THEN ZeroUsage ELSE uu[e]]

get_user_usage(uu, email) ==
    IF email \in DOMAIN uu THEN uu ELSE uu @@ (email :> ZeroUsage)

RequestLimitMsg ==
    <<"Demo limit reached (", ToString(DEMO_REQUEST_LIMIT), " ", "requests).">>
TokenLimitMsg ==
    <<"Demo token limit reached (", ToString(DEMO_TOKEN_LIMIT), " ", "tokens).">>

\* [ok, msg, usage]: the (can_proceed, error_message) pair and the table afterwards.
check_demo_limits_mut_never(uu, email) ==
    [ok |-> TRUE, msg |-> <<>>, usage |-> get_user_usage(uu, email)]

check_demo_limits_mut_counting(uu, email) ==
    IF is_admin_user(email)
    THEN [ok |-> TRUE, msg |-> <<>>, usage |-> uu]
    ELSE LET t == get_user_usage(uu, email)
         IN  IF t[email].request_count >= DEMO_REQUEST_LIMIT
             THEN [ok |-> FALSE, msg |-> RequestLimitMsg,
                   usage |-> [t EXCEPT ![email].request_count = @ + 1]]
             ELSE IF t[email].token_count >= DEMO_TOKEN_LIMIT
             THEN [ok |-> FALSE, msg |-> TokenLimitMsg, usage |-> t]
             ELSE [ok |-> TRUE, msg |-> <<>>, usage |-> t]

check_demo_limits_mut_admin(uu, email) ==
    LET t == get_user_usage(uu, email)
    IN  IF t[email].request_count >= DEMO_REQUEST_LIMIT
        THEN [ok |-> FALSE, msg |-> RequestLimitMsg, usage |-> t]
        ELSE IF t[email].token_count >= DEMO_TOKEN_LIMIT
        THEN [ok |-> FALSE, msg |-> TokenLimitMsg, usage |-> t]
        ELSE [ok |-> TRUE, msg |-> <<>>, usage |-> t]

check_demo_limits(uu, email) ==
    IF is_admin_user(email)
    THEN [ok |-> TRUE, msg |-> <<>>, usage |-> uu]
    ELSE LET t == get_user_usage(uu, email)
         IN  IF t[email].request_count >= DEMO_REQUEST_LIMIT
             THEN [ok |-> FALSE, msg |-> RequestLimitMsg, usage |-> t]
             ELSE IF t[email].token_count >= DEMO_TOKEN_LIMIT
             THEN [ok |-> FALSE, msg |-> TokenLimitMsg, usage |-> t]
             ELSE [ok |-> TRUE, msg |-> <<>>, usage |-> t]

increment_usage_mut_twice(uu, email, estimated_tokens) ==
    IF is_admin_user(email)
    THEN uu
    ELSE LET t == get_user_usage(uu, email)
         IN  [t EXCEPT ![email] =
                 [request_count |-> @.request_count + 2,
                  token_count |-> @.token_count + estimated_tokens]]

increment_usage_mut_admin(uu, email, estimated_tokens) ==
    LET t == get_user_usage(uu, email)
    IN  [t EXCEPT ![email] =
            [request_count |-> @.request_count + 1,
             token_count |-> @.token_count + estimated_tokens]]

increment_usage_mut_tokens(uu, email, estimated_tokens) ==
    IF is_admin_user(email)
    THEN uu
    ELSE LET t == get_user_usage(uu, email)
         IN  [t EXCEPT ![email] =
                 [request_count |-> @.request_count + 1,
                  token_count |-> @.token_count + 50]]

\* a write of counters computed from a record read before another request's write
increment_usage_mut_stale(uu, email, estimated_tokens) ==
    IF is_admin_user(email)
    THEN uu
    ELSE LET t == get_user_usage(uu, email)
         IN  [t EXCEPT ![email] =
                 [request_count |-> 1, token_count |-> estimated_tokens]]

increment_usage(uu, email, estimated_tokens) ==
    IF is_admin_user(email)
    THEN uu
    ELSE LET t == get_user_usage(uu, email)
         IN  [t EXCEPT ![email] =
                 [request_count |-> @.request_count + 1,
                  token_count |-> @.token_count + estimated_tokens]]

(***************************************************************************)
(* Response cache (main_dev.py, v1.2.0/main.py).  A Python dict keeps its  *)
(* keys in insertion order; assigning to a key it holds keeps the key's    *)
(* place.  The dict is the sequence of its [key, value] items.             *)
(***************************************************************************)
\* f"{model}:{user_content}:{file_name or 'no_file'}"
cache_key(model, message, file_name) ==
    model \o <<":">> \o message \o <<":">> \o
        (IF Truthy(file_name) THEN file_name ELSE <<"no_file">>)

CacheKeys(cache) == {cache[i].key : i \in 1..Len(cache)}

CacheIndex(cache, key) == CHOOSE i \in 1..Len(cache) : cache[i].key = key

\* response_cache[cache_key]
CacheGet(cache, key) == cache[CacheIndex(cache, key)].value

\* response_cache[cache_key] = assistant_message
CachePut(cache, key, value) ==
    IF key \in CacheKeys(cache)
    THEN [cache EXCEPT ![CacheIndex(cache, key)].value = value]
    ELSE Append(cache, [key |-> key, value |-> value])

\* if len(response_cache) > 100: delete list(response_cache.keys())[:20]
CacheEvict_mut_none(cache) == cache

CacheEvict_mut_newest(cache) ==
    IF Len(cache) > MAX_CACHE
    THEN SubSeq(cache, 1, Len(cache) - EVICT_COUNT)
    ELSE cache

CacheEvict(cache) ==
    IF Len(cache) > MAX_CACHE
    THEN SubSeq(cache, EVICT_COUNT + 1, Len(cache))
    ELSE cache

\* if cache_key in response_cache
cache_hit_mut_never(cache, key) == FALSE

cache_hit(cache, key) == key \in CacheKeys(cache)

\* A cache hit reads the dict and leaves it as it is.
CacheTouch_mut_lru(cache, key) ==
    LET i == CacheIndex(cache, key)
    IN  SubSeq(cache, 1, i - 1) \o SubSeq(cache, i + 1, Len(cache)) \o <<cache[i]>>

CacheTouch(cache, key) == cache

(***************************************************************************)
(* File content (main_dev.py process_file_content, base64.b64decode).      *)
(***************************************************************************)
\* base64.b64decode(file_content) on the uploads the model sends:
\*   "aGk="    -> b"hi"
\*   "bG9uZw==" stands for the encoding of a 5000 character word
\*   "/w=="    -> b"\xff", which is not UTF-8
\*   "abc"     -> binascii.Error (incorrect padding)
b64decode(file_content) ==
    CASE file_content = <<"aGk=">> -> [ok |-> TRUE, utf8 |-> TRUE, text |-> <<"hi">>]
      [] file_content = <<"bG9uZw==">> -> [ok |-> TRUE, utf8 |-> TRUE, text |-> <<"<5000 chars>">>]
      [] file_content = <<"/w==">> -> [ok |-> TRUE, utf8 |-> FALSE, text |-> <<>>]
      [] OTHER -> [ok |-> FALSE, utf8 |-> FALSE, text |-> <<>>]

\* len() in characters of one atom
AtomLen(a) == IF a = "<5000 chars>" THEN 5000 ELSE IF a = "<4000 chars>" THEN 4000 ELSE 1

RECURSIVE CharLen(_)
CharLen(s) == IF s = <<>> THEN 0 ELSE AtomLen(Head(s)) + CharLen(Tail(s))

\* file_text[:n] for the texts of the model: a long word is cut to n characters
Prefix(s, n) ==
    [i \in 1..Len(s) |-> IF s[i] = "<5000 chars>" /\ n = max_file_chars
                         THEN "<4000 chars>" ELSE s[i]]

TextExtensions == {<<"txt">>, <<"json">>, <<"yaml">>, <<"yml">>, <<"md">>, <<"csv">>, <<"log">>}
ImageExtensions == {<<"jpg">>, <<"jpeg">>, <<"png">>, <<"gif">>, <<"bmp">>, <<"webp">>}

\* lib: what the optional libraries do with the bytes:
\*   [PDF_AVAILABLE, IMAGE_AVAILABLE, parsed, text]
process_file_content(file_data, file_name, lib) ==
    LET ext == file_extension(file_name)
    IN  IF ext \in TextExtensions
        THEN IF file_data.utf8
             THEN file_data.text
             ELSE <<"[Binary", " ", "text", " ", "file:", " ">> \o file_name \o <<"]">>
        ELSE IF (ext = <<"pdf">> /\ lib.PDF_AVAILABLE)
                \/ (ext \in {<<"docx">>, <<"xlsx">>, <<"xls">>} \cup ImageExtensions
                    /\ lib.IMAGE_AVAILABLE)
        THEN IF lib.parsed
             THEN lib.text
             ELSE <<"[">> \o ext \o <<" ", "processing", " ", "error]">>
        ELSE <<"[Unsupported", " ", "file", " ", "type:", " ">> \o ext \o <<"]">>

\* main_dev.py 400-412: the user content sent upstream
file_info_dev(file_content, file_name, lib) ==
    LET file_data == b64decode(file_content)
        file_text == process_file_content(file_data, file_name, lib)
    IN  IF ~file_data.ok
        THEN <<" ", "[Uploaded", " ", "file:", " ">> \o file_name
                 \o <<" ", "(could", " ", "not", " ", "decode)]">>
        ELSE IF file_text # <<>>
        THEN <<" ", "[Uploaded", " ", "file:", " ">> \o file_name \o <<"]", " ", "---", " ">>
                 \o (IF CharLen(file_text) > max_file_chars
                     THEN Prefix(file_text, max_file_chars) \o <<" ", "...", " ", "(truncated)">>
                     ELSE file_text)
                 \o <<" ", "---">>
        ELSE <<" ", "[Uploaded", " ", "file:", " ">> \o file_name
                 \o <<" ", "(binary", " ", "or", " ", "non-text)]">>

\* v1.2.0/main.py 144-159: the bytes are decoded as UTF-8, whatever the extension
file_info_v120(file_content, file_name) ==
    LET file_data == b64decode(file_content)
        file_text == IF file_data.utf8 THEN file_data.text ELSE <<>>
    IN  IF ~file_data.ok
        THEN <<" ", "[Uploaded", " ", "file:", " ">> \o file_name
                 \o <<" ", "(could", " ", "not", " ", "decode)]">>
        ELSE IF file_text # <<>>
        THEN <<" ", "[Uploaded", " ", "file:", " ">> \o file_name \o <<"]", " ", "---", " ">>
                 \o (IF CharLen(file_text) > max_file_chars
                     THEN Prefix(file_text, max_file_chars) \o <<" ", "...", " ", "(truncated)">>
                     ELSE file_text)
                 \o <<" ", "---">>
        ELSE <<" ", "[Uploaded", " ", "file:", " ">> \o file_name
                 \o <<" ", "(binary", " ", "or", " ", "non-text)]">>

\* v1.0.0/main.py 75-84: the bytes are decoded as UTF-8 with errors='ignore'
user_content_v100(message, file_content, file_name) ==
    LET file_data == b64decode(file_content)
    IN  IF Truthy(file_content) /\ Truthy(file_name)
        THEN IF file_data.ok
             THEN message \o <<" ", "File:", " ">> \o file_name \o <<" ", "Content:", " ">>
                      \o file_data.text
             ELSE message \o <<" ", "File:", " ">> \o file_name
                      \o <<" ", "(content", " ", "could", " ", "not", " ", "be", " ", "decoded)">>
        ELSE message

\* user_content = f"{message}{file_info}" when a file is attached, else message
user_content_of(ver, message, file_content, file_name, lib) ==
    IF Truthy(file_content) /\ Truthy(file_name)
    THEN message \o (IF ver = "dev"
                     THEN file_info_dev(file_content, file_name, lib)
                     ELSE file_info_v120(file_content, file_name))
    ELSE message

(***************************************************************************)
(* Image generation helpers (main_dev.py).                                 *)
(***************************************************************************)
image_models == {"dall-e-3", "dall-e-2", "dall-e", "midjourney", "stable-diffusion",
                 "sdxl", "kandinsky", "deepfloyd"}

\* any(img_model in model.lower() for img_model in image_models)
is_image_generation_model(model) == \E i \in 1..Len(model) : Lower(model[i]) \in image_models

image_keywords == {"draw", "picture", "photo"}

generate_image_prompt(user_message) ==
    IF \E i \in 1..Len(user_message) : Lower(user_message[i]) \in image_keywords
    THEN user_message
    ELSE <<"Create", " ", "a", " ", "high-quality,", " ", "detailed", " ", "image", " ", "of:", " ">>
             \o user_message

\* main_dev.py 163-173: the prompt, with the first 1000 characters of the file
image_prompt_of(message, file_content, file_name, lib) ==
    LET p == generate_image_prompt(message)
        file_data == b64decode(file_content)
        file_text == process_file_content(file_data, file_name, lib)
    IN  IF Truthy(file_content) /\ Truthy(file_name) /\ file_data.ok /\ file_text # <<>>
        THEN p \o <<" ", "Context", " ", "from", " ", "uploaded", " ", "file", " ", "(">>
               \o file_name \o <<"):", " ">> \o Prefix(file_text, 1000)
        ELSE p

(***************************************************************************)
(* Chat sessions, payloads and request slots.                              *)
(***************************************************************************)
\* flag: the is_image_request / is_image_response entry of the turn ("absent": no such key)
Turn(role, content, file_name, flag) ==
    [role |-> role, content |-> content, file_name |-> file_name, image |-> flag]

\* if session_id not in chat_sessions: chat_sessions[session_id] = []
SessionInit_mut_reset(cs, session_id) ==
    [i \in DOMAIN cs \cup {session_id} |-> IF i = session_id THEN <<>> ELSE cs[i]]

SessionInit(cs, session_id) ==
    IF session_id \in DOMAIN cs THEN cs ELSE cs @@ (session_id :> <<>>)

\* chat_sessions[session_id].append(msg)
SessionPush(cs, session_id, msg) == [cs EXCEPT ![session_id] = Append(@, msg)]

\* The JSON payload (or the HTTP error) a handler answers with.
Payload(kind, text, file_name) == [kind |-> kind, text |-> text, file_name |-> file_name]

\* return {"error": <text>, "file_name": file_name}
error_payload_mut_no_echo(text, file_name) == Payload("error", text, NoKey)

error_payload(text, file_name) == Payload("error", text, file_name)
NoPayload == Payload("none", <<>>, None)
Unauthorized == Payload("http_401", <<"Authentication", " ", "required">>, None)

FreeSlot ==
    [pc |-> "idle", ws |-> 0, email |-> "", model |-> <<>>, message |-> <<>>,
     session_id |-> "", file_content |-> None, file_name |-> None, cache_key |-> <<>>,
     user_content |-> <<>>,
     image_prompt |-> <<>>, calls |-> 0, path |-> "none", answer |-> <<>>,
     resp |-> NoPayload]

\* get_current_user: the user of the web session, <<>> when there is none
current_user(ws) == session[ws].user

\* require_auth: whether the handler goes on; otherwise HTTPException(401) is raised
require_auth(user) == user # <<>>

\* What an endpoint without a request slot answered: the HTTP status, the number of
\* gateway calls it made, and the JSON body.
ApiAnswer(op, ws, status, calls, body) ==
    [op |-> op, ws |-> ws, arg |-> "", status |-> status, calls |-> calls, body |-> body]
NoAnswer == ApiAnswer("none", 0, 0, 0, <<>>)

(***************************************************************************)
(* POST /api/chat up to its first await (or its return).                   *)
(*   main_dev.py 350-412 (and handle_image_generation 155-173),            *)
(*   v1.2.0/main.py 111-159.                                               *)
(* The result is [user_usage, chat_sessions, response_cache, slot].        *)
(***************************************************************************)
\* v1.0.0/main.py 73-105: no login, no limits, no cache; nothing is stored before
\* the gateway is called
chat_begin_v100(uu, cs, cache, a) ==
    [user_usage |-> uu, chat_sessions |-> cs, response_cache |-> cache,
     slot |-> [FreeSlot EXCEPT !.pc = "upstream", !.ws = a.ws, !.model = a.model,
                   !.message = a.message, !.session_id = a.session_id,
                   !.file_content = a.file_content, !.file_name = a.file_name,
                   !.path = "plain", !.calls = 1,
                   !.user_content = user_content_v100(a.message, a.file_content,
                                                      a.file_name)]]

chat_begin(ver, user, uu, cs, cache, a) ==
    IF ver = "v1.0.0"
    THEN chat_begin_v100(uu, cs, cache, a)
    ELSE IF ~require_auth(user)
    THEN \* require_auth raises HTTPException(401)
         [user_usage |-> uu, chat_sessions |-> cs, response_cache |-> cache,
          slot |-> [FreeSlot EXCEPT !.pc = "done", !.ws = a.ws, !.model = a.model,
                        !.message = a.message, !.session_id = a.session_id,
                        !.file_content = a.file_content, !.file_name = a.file_name,
                        !.path = "unauthorized",
                        !.resp = Unauthorized]]
    ELSE
    LET email == user[1].email
        lim == IF ver = "dev" THEN check_demo_limits(uu, email)
                              ELSE [ok |-> TRUE, msg |-> <<>>, usage |-> uu]
        base == [FreeSlot EXCEPT !.ws = a.ws, !.email = email, !.model = a.model,
                     !.message = a.message, !.session_id = a.session_id,
                     !.file_content = a.file_content, !.file_name = a.file_name]
        user_message == Turn("user", a.message,
                             IF Truthy(a.file_content) THEN a.file_name ELSE None,
                             IF ver = "dev"
                             THEN (IF a.is_image_request THEN "True" ELSE "False")
                             ELSE "absent")
        cs1 == SessionPush(SessionInit(cs, a.session_id), a.session_id, user_message)
        should_generate_image ==
            ver = "dev" /\ (a.is_image_request
                            \/ (is_image_generation_model(a.model) /\ ~Truthy(a.file_content)))
        key == cache_key(a.model, a.message, a.file_name)
    IN  IF ~lim.ok
        THEN [user_usage |-> lim.usage, chat_sessions |-> cs, response_cache |-> cache,
              slot |-> [base EXCEPT !.pc = "done", !.path = "denied",
                            !.resp = error_payload(lim.msg, a.file_name)]]
        ELSE IF should_generate_image
        THEN \* handle_image_generation: require_auth and check_demo_limits once more,
             \* on the same state, then the first await
             [user_usage |-> check_demo_limits(lim.usage, email).usage, chat_sessions |-> cs1,
              response_cache |-> cache,
              slot |-> [base EXCEPT !.pc = "image", !.path = "image", !.calls = 1,
                            !.image_prompt = image_prompt_of(a.message, a.file_content,
                                                             a.file_name, a.lib)]]
        ELSE IF cache_hit(cache, key)
        THEN [user_usage |-> lim.usage, response_cache |-> CacheTouch(cache, key),
              chat_sessions |-> SessionPush(cs1, a.session_id,
                                   Turn("assistant", CacheGet(cache, key), None, "absent")),
              slot |-> [base EXCEPT !.pc = "done", !.path = "text_hit", !.cache_key = key,
                            !.resp = Payload("content", CacheGet(cache, key), a.file_name)]]
        ELSE [user_usage |-> lim.usage, chat_sessions |-> cs1, response_cache |-> cache,
              slot |-> [base EXCEPT !.pc = "upstream", !.path = "text_miss",
                            !.cache_key = key, !.calls = 1,
                            !.user_content = user_content_of(ver, a.message, a.file_content,
                                                             a.file_name, a.lib)]]

(***************************************************************************)
(* The gateway's answer to POST /chat/completions and its classification.  *)
(*   out = [kind, status, json_ok, body]                                   *)
(*     kind: "response", or the exception raised inside the try block:     *)
(*           "timeout", "connect", "other", "status_error"                 *)
(*     json_ok: whether response.json() parses the body                    *)
(*     body = [has_error, error, has_choices, choices]; a choice is        *)
(*            [has_content, content]                                       *)
(***************************************************************************)
NoResponseReceived == <<"No", " ", "response", " ", "received">>

\* "NotFoundError" in error_msg
has_NotFoundError(error_msg) ==
    \E i \in 1..Len(error_msg) : error_msg[i] \in {"NotFoundError", "NotFoundError:"}

\* re.search(r"'([^']+)'", error_msg): <<>> when nothing matches
quoted_name(error_msg) ==
    LET q == {i \in 1..Len(error_msg) : error_msg[i] = "'"}
        nextq(i) == CHOOSE j \in q : j > i /\ \A k \in q : k > i => j <= k
        starts == {i \in q : (\E j \in q : j > i) /\ nextq(i) > i + 1}
    IN  IF starts = {} THEN <<>>
        ELSE LET i == CHOOSE x \in starts : \A y \in starts : x <= y
             IN  SubSeq(error_msg, i + 1, nextq(i) - 1)

\* result.get("choices", [{}])[0].get("message", {}).get("content", <default>)
first_content(body, default) ==
    IF body.has_choices /\ body.choices[1].has_content
    THEN body.choices[1].content
    ELSE default

\* main_dev.py 462-494 and 520-539 (v1.2.0/main.py 209-241, 263-282):
\* [ok, text]: the assistant message, or the text of the error payload
classify(out, model) ==
    IF out.kind = "timeout"
    THEN [ok |-> FALSE, text |-> <<"Request timed out. Please try again.">>]
    ELSE IF out.kind = "connect"
    THEN [ok |-> FALSE, text |-> <<"Could not connect to the API server.">>]
    ELSE IF out.kind = "other"
    THEN [ok |-> FALSE, text |-> <<"Unexpected error:", " ", "Exception">>]
    ELSE IF out.kind = "status_error"
    THEN IF out.status = 404
         THEN [ok |-> FALSE, text |-> <<"Model", " ", "'">> \o model
                                      \o <<"'", " ", "not", " ", "found.">>]
         ELSE IF out.status = 401
         THEN [ok |-> FALSE, text |-> <<"Authentication failed. Please check your API key.">>]
         ELSE IF out.status = 403
         THEN [ok |-> FALSE, text |-> <<"Access forbidden.">>]
         ELSE [ok |-> FALSE, text |-> <<"API error (", ToString(out.status), ")">>]
    ELSE IF ~out.json_ok
    THEN [ok |-> FALSE, text |-> <<"Invalid JSON response from API">>]
    ELSE IF out.body.has_error
    THEN IF out.body.error = None
         THEN \* "NotFoundError" in None raises TypeError, caught by except Exception
              [ok |-> FALSE, text |-> <<"Unexpected error:", " ", "TypeError">>]
         ELSE IF IsObject(out.body.error)
         THEN \* "NotFoundError" in <dict> looks among the keys: the dict is returned
              [ok |-> FALSE, text |-> out.body.error]
         ELSE IF has_NotFoundError(out.body.error)
         THEN IF quoted_name(out.body.error) # <<>>
              THEN [ok |-> FALSE,
                    text |-> <<"Model", " ", "'">> \o quoted_name(out.body.error)
                             \o <<"'", " ", "not", " ", "found.">>]
              ELSE [ok |-> FALSE, text |-> <<"Model", " ", "not", " ", "found.">>]
         ELSE [ok |-> FALSE, text |-> out.body.error]
    ELSE IF ~out.body.has_choices \/ out.body.choices = <<>>
    THEN [ok |-> FALSE, text |-> <<"Invalid response format from API">>]
    ELSE IF ~Truthy(first_content(out.body, NoResponseReceived))
            \/ first_content(out.body, NoResponseReceived) = NoResponseReceived
    THEN [ok |-> FALSE, text |-> <<"No response content received from API">>]
    ELSE [ok |-> TRUE, text |-> first_content(out.body, NoResponseReceived)]

\* estimated_tokens = len(assistant_message.split()) + len(user_content.split())
estimated_tokens_mut_message(assistant_message, user_content) == WordCount(assistant_message)

estimated_tokens(assistant_message, user_content) ==
    WordCount(assistant_message) + WordCount(user_content)

\* re.search(r'Model Group=([^\n]+)', error_msg): <<>> when nothing matches
model_group(error_msg) ==
    LET at == {i \in 1..Len(error_msg) : error_msg[i] = "Model Group="}
        i == CHOOSE x \in at : \A y \in at : x <= y
        ends == {j \in (i + 1)..Len(error_msg) : error_msg[j] = "\n"}
        j == IF ends = {} THEN Len(error_msg) + 1
             ELSE CHOOSE x \in ends : \A y \in ends : x <= y
    IN  IF at = {} THEN <<>> ELSE SubSeq(error_msg, i + 1, j - 1)

FailedToGetResponse == <<"Failed", " ", "to", " ", "get", " ", "response:">>

\* v1.0.0/main.py 107-124 and 142-150: [ok, text]
classify_v100(out, model) ==
    IF out.kind # "response" \/ ~out.json_ok
    THEN [ok |-> FALSE, text |-> FailedToGetResponse \o <<" ", "Exception">>]
    ELSE IF out.body.has_error
    THEN IF ~IsObject(out.body.error)
         THEN \* result["error"].get raises AttributeError on a string and on None
              [ok |-> FALSE, text |-> FailedToGetResponse \o <<" ", "AttributeError">>]
         ELSE LET error_msg == Tail(out.body.error)
              IN  IF has_NotFoundError(error_msg) /\ "Model Group=" \in Range(error_msg)
                  THEN [ok |-> FALSE,
                        text |-> <<"Model", " ", "'">>
                                 \o (IF model_group(error_msg) # <<>>
                                     THEN model_group(error_msg) ELSE model)
                                 \o <<"'", " ", "not", " ", "found.">>]
                  ELSE [ok |-> FALSE, text |-> <<"API Error:", " ">> \o error_msg]
    ELSE IF out.body.has_choices /\ out.body.choices = <<>>
    THEN \* [][0] raises IndexError
         [ok |-> FALSE, text |-> FailedToGetResponse \o <<" ", "IndexError">>]
    ELSE [ok |-> TRUE, text |-> first_content(out.body, NoResponseReceived)]

\* v1.0.0/main.py 107-150: the session gets both turns, and only on success
chat_finish_v100(slot, uu, cs, cache, out) ==
    LET c == classify_v100(out, slot.model)
    IN  IF ~c.ok
        THEN [user_usage |-> uu, chat_sessions |-> cs, response_cache |-> cache,
              slot |-> [slot EXCEPT !.pc = "done", !.answer = out,
                            !.resp = Payload("error", c.text, NoKey)]]
        ELSE [user_usage |-> uu, response_cache |-> cache,
              chat_sessions |->
                  IF slot.session_id # ""
                  THEN SessionPush(SessionPush(SessionInit(cs, slot.session_id),
                                       slot.session_id,
                                       Turn("user", slot.message, NoKey, "absent")),
                                   slot.session_id,
                                   Turn("assistant", c.text, NoKey, "absent"))
                  ELSE cs,
              slot |-> [slot EXCEPT !.pc = "done", !.answer = out,
                            !.resp = Payload("content", c.text, NoKey)]]

(***************************************************************************)
(* POST /api/chat from the gateway's answer to its return.                 *)
(*   main_dev.py 470-539, v1.2.0/main.py 217-282.                          *)
(* The result is [user_usage, chat_sessions, response_cache, slot].        *)
(***************************************************************************)
chat_finish(ver, slot, uu, cs, cache, out) ==
    LET c == classify(out, slot.model)
    IN  IF ver = "v1.0.0"
        THEN chat_finish_v100(slot, uu, cs, cache, out)
        ELSE IF ~c.ok
        THEN [user_usage |-> uu, chat_sessions |-> cs, response_cache |-> cache,
              slot |-> [slot EXCEPT !.pc = "done", !.answer = out,
                            !.resp = error_payload(c.text, slot.file_name)]]
        ELSE IF ver = "dev" /\ c.text = NonString
        THEN \* the turn is appended and the reply cached (main_dev.py 497-513), then
             \* assistant_message.split() raises AttributeError (516), which
             \* except Exception turns into an error payload (537-539)
             [user_usage |-> uu,
              chat_sessions |-> SessionPush(cs, slot.session_id,
                                    Turn("assistant", c.text, None, "absent")),
              response_cache |-> CacheEvict(CachePut(cache, slot.cache_key, c.text)),
              slot |-> [slot EXCEPT !.pc = "done", !.answer = out,
                            !.resp = error_payload(<<"Unexpected error:", " ",
                                                     "AttributeError">>, slot.file_name)]]
        ELSE [user_usage |-> IF ver = "dev"
                             THEN increment_usage(uu, slot.email,
                                      estimated_tokens(c.text, slot.user_content))
                             ELSE uu,
              chat_sessions |-> SessionPush(cs, slot.session_id,
                                    Turn("assistant", c.text, None, "absent")),
              response_cache |-> CacheEvict(CachePut(cache, slot.cache_key, c.text)),
              slot |-> [slot EXCEPT !.pc = "done", !.answer = out,
                            !.resp = Payload("content", c.text, slot.file_name)]]

(***************************************************************************)
(* handle_image_generation from an answer of the gateway on.               *)
(*   main_dev.py 190-262.                                                  *)
(*   out = [kind, status, json_ok, has_data, url, body]                    *)
(***************************************************************************)
ImageError ==
    <<"Image", " ", "Generation", " ", "Error", " ", "Failed", " ", "to", " ", "generate", " ", "image">>

\* the except branch, 251-262
image_failed_mut_no_turn(slot, uu, cs) ==
    [user_usage |-> uu, chat_sessions |-> cs,
     slot |-> [slot EXCEPT !.pc = "done", !.resp = error_payload(ImageError, slot.file_name)]]

image_failed(slot, uu, cs) ==
    [user_usage |-> uu,
     chat_sessions |-> SessionPush(cs, slot.session_id,
                           Turn("assistant", ImageError, None, "False")),
     slot |-> [slot EXCEPT !.pc = "done", !.resp = error_payload(ImageError, slot.file_name)]]

\* 226-249, on the response the code holds after the optional fallback call
image_result(slot, uu, cs, out) ==
    IF out.kind # "response" \/ out.status >= 400 \/ ~out.json_ok
       \/ (~out.has_data /\ out.body.has_choices /\ out.body.choices = <<>>)
    THEN image_failed(slot, uu, cs)
    ELSE LET assistant_message ==
                 IF out.has_data
                 THEN <<"Image", " ", "Generated", " ", "Successfully!", " ">> \o out.url
                          \o <<" ", "Prompt", " ", "Used", " ">> \o slot.image_prompt
                 ELSE first_content(out.body, <<"Image", " ", "generation", " ", "completed.">>)
         IN  [user_usage |-> increment_usage(uu, slot.email, IMAGE_TOKENS),
              chat_sessions |-> SessionPush(cs, slot.session_id,
                                    Turn("assistant", assistant_message, None, "True")),
              slot |-> [slot EXCEPT !.pc = "done",
                            !.resp = Payload("content", assistant_message, slot.file_name)]]

\* 193-224: the answer of /images/generations; a 404 sends the fallback chat call
image_first_mut_any_error(slot, uu, cs, out) ==
    IF out.kind = "response" /\ out.status >= 400
    THEN [user_usage |-> uu, chat_sessions |-> cs,
          slot |-> [slot EXCEPT !.pc = "image_fallback", !.calls = @ + 1]]
    ELSE image_result(slot, uu, cs, out)

image_first(slot, uu, cs, out) ==
    IF out.kind = "response" /\ out.status = 404
    THEN [user_usage |-> uu, chat_sessions |-> cs,
          slot |-> [slot EXCEPT !.pc = "image_fallback", !.calls = @ + 1]]
    ELSE image_result(slot, uu, cs, out)

(***************************************************************************)
(* Auth gateway (auth_dev.py, v1.2.0/auth.py).  request.session is kept    *)
(* per browser; a state token is a positive number, fresh on every login.  *)
(***************************************************************************)
NoSession == [user |-> <<>>, oauth_state |-> Absent]

FreeCallback ==
    [pc |-> "idle", code |-> "", state |-> Absent, exchanges |-> 0, fetches |-> 0,
     result |-> "none"]

\* bool(code): the parameter is there and not empty
HasCode(code) == code \notin {"absent", ""}

\* if state != request.session.get('oauth_state'): invalid_state
state_mismatch_mut_unchecked(state, stored) == FALSE

state_mismatch(state, stored) == state # stored

\* the user dict of auth_callback; the session holds a serialized copy of it
user_of(ver, user_info, uu) ==
    IF ver = "dev"
    THEN [id |-> user_info.id, email |-> user_info.email,
          is_admin |-> is_admin_user(user_info.email),
          usage |-> get_user_usage(uu, user_info.email)[user_info.email]]
    ELSE [id |-> user_info.id, email |-> user_info.email]

\* users[user['id']] = user: the same dict, whose 'usage' entry is the record of
\* user_usage itself and is read there
user_entry(ver, user_info) ==
    IF ver = "dev"
    THEN [id |-> user_info.id, email |-> user_info.email,
          is_admin |-> is_admin_user(user_info.email)]
    ELSE [id |-> user_info.id, email |-> user_info.email]

\* request.session['user'] = user; request.session.pop('oauth_state', None)
session_after_login_mut_keep_state(s, user) == [s EXCEPT !.user = <<user>>]

session_after_login(s, user) == [user |-> <<user>>, oauth_state |-> Absent]

\* except Exception: redirect to /login?error=auth_failed; nothing is tried again
auth_failed_mut_retry(c) == [c EXCEPT !.pc = "token", !.exchanges = @ + 1]

auth_failed(c) == [c EXCEPT !.pc = "done", !.result = "auth_failed"]

\* GET /auth/google
LoginGoogle(ws) ==
    /\ next_state < MaxTokens
    /\ next_state' = next_state + 1
    /\ session' = [session EXCEPT ![ws].oauth_state = next_state + 1]
    /\ UNCHANGED <<version, users, user_usage, chat_sessions, response_cache, cache_stamp,
                   cache_clock, cb, req, increments, api, gateway_calls, cache_origin, consumed>>

\* GET /auth/callback up to the token exchange: auth_dev.py 106-129
CallbackStart(ws, code, state) ==
    /\ cb[ws].pc \in {"idle", "done"}
    /\ cb' = [cb EXCEPT ![ws] =
                 IF state_mismatch(state, session[ws].oauth_state)
                 THEN [FreeCallback EXCEPT !.pc = "done", !.code = code, !.state = state,
                           !.result = "invalid_state"]
                 ELSE IF ~HasCode(code)
                 THEN [FreeCallback EXCEPT !.pc = "done", !.code = code, !.state = state,
                           !.result = "no_code"]
                 ELSE [FreeCallback EXCEPT !.pc = "token", !.code = code, !.state = state,
                           !.exchanges = 1]]
    /\ UNCHANGED <<version, users, user_usage, chat_sessions, response_cache, cache_stamp,
                   cache_clock, session, next_state, req, increments, api, gateway_calls,
                   cache_origin, consumed>>

\* the token endpoint answered: 129-136.  ok: a 2xx answer holding an access_token
CallbackToken(ws, ok) ==
    /\ cb[ws].pc = "token"
    /\ cb' = [cb EXCEPT ![ws] =
                 IF ok THEN [@ EXCEPT !.pc = "userinfo", !.fetches = 1]
                       ELSE auth_failed(@)]
    /\ UNCHANGED <<version, users, user_usage, chat_sessions, response_cache, cache_stamp,
                   cache_clock, session, next_state, req, increments, api, gateway_calls,
                   cache_origin, consumed>>

\* the userinfo endpoint answered: 136-175.  user_info.ok: a 2xx answer with id and email
CallbackUserinfo(ws, user_info) ==
    /\ cb[ws].pc = "userinfo"
    /\ IF user_info.ok
       THEN LET user == user_of(version, user_info, user_usage)
            IN  /\ user_usage' = IF version = "dev"
                                 THEN get_user_usage(user_usage, user_info.email)
                                 ELSE user_usage
                /\ session' = [session EXCEPT ![ws] = session_after_login(@, user)]
                /\ users' = [i \in DOMAIN users \cup {user.id} |->
                                IF i = user.id THEN user_entry(version, user_info)
                                               ELSE users[i]]
                /\ cb' = [cb EXCEPT ![ws] = [@ EXCEPT !.pc = "done", !.result = "ok"]]
                /\ consumed' = IF cb[ws].state = Absent THEN consumed
                               ELSE consumed \cup {cb[ws].state}
       ELSE /\ cb' = [cb EXCEPT ![ws] = auth_failed(@)]
            /\ UNCHANGED <<users, user_usage, session, consumed>>
    /\ UNCHANGED <<version, chat_sessions, response_cache, cache_stamp, cache_clock,
                   next_state, req, increments, api, gateway_calls, cache_origin>>

\* GET /logout: request.session.clear()
Logout(ws) ==
    /\ session[ws] # NoSession
    /\ session' = [session EXCEPT ![ws] = NoSession]
    /\ UNCHANGED <<version, users, user_usage, chat_sessions, response_cache, cache_stamp,
                   cache_clock, next_state, cb, req, increments, api, gateway_calls,
                   cache_origin, consumed>>

(***************************************************************************)
(* The chat endpoints as actions.                                          *)
(***************************************************************************)
\* the turns the requests in flight still append: one each, two in v1.0.0
InFlight ==
    Cardinality({r \in DOMAIN req : req[r].pc \notin {"idle", "done"}})
    + Cardinality({r \in DOMAIN req : req[r].pc \notin {"idle", "done"}
                                       /\ req[r].path = "plain"})

\* the session the warm-up requests of SpecCache wrote; its turns are not counted
WarmSession == "warm"

RECURSIVE TotalTurns(_, _)
TotalTurns(cs, ids) ==
    IF ids = {} THEN 0
    ELSE LET i == CHOOSE x \in ids : TRUE
         IN  (IF i = WarmSession THEN 0 ELSE Len(cs[i])) + TotalTurns(cs, ids \ {i})

\* the model has room for what the request appends and for the answers still to come
HasRoom(r, b) ==
    b.chat_sessions # chat_sessions \/ b.slot.path = "plain" =>
        TotalTurns(b.chat_sessions, DOMAIN b.chat_sessions) + InFlight
            + (IF b.slot.pc = "done" THEN 0 ELSE IF b.slot.path = "plain" THEN 2 ELSE 1)
        <= MaxTurns

\* history of the dict: the serial number of the insertion that put each key in
StampAfter(cache, key, cache2) ==
    [k \in CacheKeys(cache2) |->
        IF k = key /\ key \notin CacheKeys(cache) THEN cache_clock + 1 ELSE cache_stamp[k]]

\* history of client.post: n more requests were sent to the gateway for the slot's user
CallsAfter(slot, n) ==
    IF slot.email \in DOMAIN gateway_calls
    THEN [gateway_calls EXCEPT ![slot.email] = @ + n]
    ELSE gateway_calls

\* history of the dict: the request (its user and the prompt it sent upstream) whose
\* reply each key holds
OriginAfter(stored, slot, cache2) ==
    [k \in CacheKeys(cache2) |->
        IF k = slot.cache_key /\ stored
        THEN [email |-> slot.email, model |-> slot.model, user_content |-> slot.user_content]
        ELSE cache_origin[k]]

\* POST /api/chat, from the request to the first await or the return
\*   a = [ws, message, model, session_id, file_content, file_name, is_image_request, lib]
ChatStart(r, a) ==
    /\ req[r].pc \in {"idle", "done"}
    /\ LET b == chat_begin(version, current_user(a.ws), user_usage, chat_sessions,
                           response_cache, a)
       IN  /\ HasRoom(r, b)
           /\ user_usage' = b.user_usage
           /\ chat_sessions' = b.chat_sessions
           /\ response_cache' = b.response_cache
           /\ req' = [req EXCEPT ![r] = b.slot]
           /\ gateway_calls' = CallsAfter(b.slot, b.slot.calls)
    /\ UNCHANGED <<version, users, cache_stamp, cache_clock, session, next_state, cb,
                   increments, api, cache_origin, consumed>>

\* the gateway answered (or the call failed) on the text path
ChatResponse(r, out) ==
    /\ req[r].pc = "upstream"
    /\ LET f == chat_finish(version, req[r], user_usage, chat_sessions, response_cache, out)
           ok == f.slot.resp.kind = "content"
           \* the reply was stored: the branch that appends the assistant turn
           stored == version # "v1.0.0" /\ f.chat_sessions # chat_sessions
           new == stored /\ req[r].cache_key \notin CacheKeys(response_cache)
       IN  /\ user_usage' = f.user_usage
           /\ chat_sessions' = f.chat_sessions
           /\ response_cache' = f.response_cache
           /\ req' = [req EXCEPT ![r] = f.slot]
           /\ cache_stamp' = StampAfter(response_cache, req[r].cache_key, f.response_cache)
           /\ cache_origin' = OriginAfter(stored, req[r], f.response_cache)
           /\ cache_clock' = IF new THEN cache_clock + 1 ELSE cache_clock
           /\ increments' = IF ok /\ version = "dev"
                            THEN [increments EXCEPT ![req[r].email] = @ + 1]
                            ELSE increments
    /\ UNCHANGED <<version, users, session, next_state, cb, api, gateway_calls, consumed>>

\* the gateway answered POST /images/generations
ImageResponse(r, out) ==
    /\ req[r].pc = "image"
    /\ LET f == image_first(req[r], user_usage, chat_sessions, out)
       IN  /\ user_usage' = f.user_usage
           /\ chat_sessions' = f.chat_sessions
           /\ req' = [req EXCEPT ![r] = f.slot]
           /\ gateway_calls' = CallsAfter(f.slot, f.slot.calls - req[r].calls)
           /\ increments' = IF f.slot.resp.kind = "content"
                            THEN [increments EXCEPT ![req[r].email] = @ + 1]
                            ELSE increments
    /\ UNCHANGED <<version, users, response_cache, cache_stamp, cache_clock, session,
                   next_state, cb, api, cache_origin, consumed>>

\* the gateway answered the fallback POST /chat/completions of the image path
ImageFallbackResponse(r, out) ==
    /\ req[r].pc = "image_fallback"
    /\ LET f == image_result(req[r], user_usage, chat_sessions, out)
       IN  /\ user_usage' = f.user_usage
           /\ chat_sessions' = f.chat_sessions
           /\ req' = [req EXCEPT ![r] = f.slot]
           /\ increments' = IF f.slot.resp.kind = "content"
                            THEN [increments EXCEPT ![req[r].email] = @ + 1]
                            ELSE increments
    /\ UNCHANGED <<version, users, response_cache, cache_stamp, cache_clock, session,
                   next_state, cb, api, gateway_calls, cache_origin, consumed>>

\* POST /api/new-session: session_id = str(uuid.uuid4()), a key no session has yet
UuidIds == {"uuid-1", "uuid-2"}
NextUuid ==
    IF "uuid-1" \notin DOMAIN chat_sessions THEN "uuid-1" ELSE "uuid-2"

create_new_session(ws) ==
    /\ IF ~require_auth(current_user(ws))
       THEN /\ api' = ApiAnswer("new-session", ws, 401, 0, <<>>)
            /\ UNCHANGED chat_sessions
       ELSE /\ Cardinality(DOMAIN chat_sessions \cap UuidIds) < MaxNewSessions
            /\ chat_sessions' = chat_sessions @@ (NextUuid :> <<>>)
            /\ api' = ApiAnswer("new-session", ws, 200, 0, NextUuid)
    /\ UNCHANGED <<version, users, user_usage, response_cache, cache_stamp, cache_clock,
                   session, next_state, cb, req, increments, gateway_calls, cache_origin, consumed>>

\* GET /api/chat-history/{session_id}: main_dev.py 541-549, v1.2.0/main.py 284-292
get_chat_history_mut_open(user, cs, session_id) ==
    [status |-> 200, body |-> IF session_id \in DOMAIN cs THEN cs[session_id] ELSE <<>>]

get_chat_history(user, cs, session_id) ==
    IF ~require_auth(user)
    THEN [status |-> 401, body |-> <<>>]
    ELSE [status |-> 200, body |-> IF session_id \in DOMAIN cs THEN cs[session_id] ELSE <<>>]

GetChatHistory(ws, session_id) ==
    /\ LET a == get_chat_history(current_user(ws), chat_sessions, session_id)
       IN  api' = [ApiAnswer("chat-history", ws, a.status, 0, a.body)
                      EXCEPT !.arg = session_id]
    /\ UNCHANGED <<version, users, user_usage, chat_sessions, response_cache, cache_stamp,
                   cache_clock, session, next_state, cb, req, increments, gateway_calls,
                   cache_origin, consumed>>

\* GET /api/usage: main_dev.py 560-585.  user is the dict request.session holds
get_usage(user) ==
    IF ~require_auth(user)
    THEN [status |-> 401, body |-> <<>>]
    ELSE IF user[1].is_admin
    THEN [status |-> 200,
          body |-> [is_admin |-> TRUE, request_count |-> "Unlimited",
                    token_count |-> "Unlimited", limit_reached |-> FALSE]]
    ELSE LET usage == user[1].usage
         IN  [status |-> 200,
              body |-> [is_admin |-> FALSE, request_count |-> usage.request_count,
                        token_count |-> usage.token_count,
                        request_limit |-> DEMO_REQUEST_LIMIT,
                        token_limit |-> DEMO_TOKEN_LIMIT,
                        limit_reached |-> usage.request_count >= DEMO_REQUEST_LIMIT]]

GetUsage(ws) ==
    /\ version = "dev"
    /\ LET a == get_usage(current_user(ws))
       IN  api' = ApiAnswer("usage", ws, a.status, 0, a.body)
    /\ UNCHANGED <<version, users, user_usage, chat_sessions, response_cache, cache_stamp,
                   cache_clock, session, next_state, cb, req, increments, gateway_calls,
                   cache_origin, consumed>>

\* GET /api/models: main_dev.py 320-337, v1.2.0/main.py 82-99.  fetched: the gateway
\* answered 2xx with a JSON body; the handler touches no state of the module
get_models(user, fetched) ==
    IF ~require_auth(user)
    THEN [status |-> 401, calls |-> 0, body |-> <<>>]
    ELSE [status |-> 200, calls |-> 1,
          body |-> IF fetched THEN <<"models">> ELSE <<"Failed to fetch models">>]

GetModels(ws, fetched) ==
    /\ LET a == get_models(current_user(ws), fetched)
       IN  api' = ApiAnswer("models", ws, a.status, a.calls, a.body)
    /\ UNCHANGED <<version, users, user_usage, chat_sessions, response_cache, cache_stamp,
                   cache_clock, session, next_state, cb, req, increments, gateway_calls,
                   cache_origin, consumed>>

(***************************************************************************)
(* What the gateway and Google may answer.                                 *)
(***************************************************************************)
Body(has_error, error, has_choices, choices) ==
    [has_error |-> has_error, error |-> error, has_choices |-> has_choices,
     choices |-> choices]

Answer(status, body) == [kind |-> "response", status |-> status, json_ok |-> TRUE, body |-> body]
Reply(content) ==
    Answer(200, Body(FALSE, <<>>, TRUE, <<[has_content |-> TRUE, content |-> content]>>))
Raised(kind) == [kind |-> kind, status |-> 0, json_ok |-> FALSE, body |-> Body(FALSE, <<>>, FALSE, <<>>)]
ErrorBody(status, error) == Answer(status, Body(TRUE, error, FALSE, <<>>))

ReplyOk == <<"ok">>
ReplyLong == <<"two", " ", "words">>

\* answers of POST /images/generations and of the fallback call
ImageAnswer(status, has_data, body) ==
    [kind |-> "response", status |-> status, json_ok |-> TRUE, has_data |-> has_data,
     url |-> <<"https://img/1.png">>, body |-> body]
ImageRaised(kind) ==
    [kind |-> kind, status |-> 0, json_ok |-> FALSE, has_data |-> FALSE, url |-> <<>>,
     body |-> Body(FALSE, <<>>, FALSE, <<>>)]

Profile(email) == [ok |-> TRUE, id |-> email, email |-> email]
NoProfile == [ok |-> FALSE, id |-> "", email |-> ""]

NoLib == [PDF_AVAILABLE |-> TRUE, IMAGE_AVAILABLE |-> TRUE, parsed |-> FALSE, text |-> <<>>]

Args(ws, message, model, session_id, file_content, file_name, is_image_request) ==
    [ws |-> ws, message |-> message, model |-> model, session_id |-> session_id,
     file_content |-> file_content, file_name |-> file_name,
     is_image_request |-> is_image_request, lib |-> NoLib]

(***************************************************************************)
(* Spec: the whole application, both versions, from process start: one     *)
(* browser, one chat request at a time.                                    *)
(***************************************************************************)
Versions == {"dev", "v1.2.0"}
Emails == {ADMIN_EMAIL, DEMO_EMAIL}
Browsers == {1}
Slots == {1}
Hi == <<"hi">>
Gpt4 == <<"gpt-4">>
DallE == <<"dall-e-3">>
FileTxt == <<"f", ".", "txt">>
NoFile == [content |-> None, name |-> None]
TxtFile == [content |-> <<"aGk=">>, name |-> FileTxt]
TextOutcomes == {Reply(ReplyOk), Raised("timeout")}
ImageOutcomes == {ImageAnswer(200, TRUE, Body(FALSE, <<>>, FALSE, <<>>)),
                  ImageAnswer(404, FALSE, Body(FALSE, <<>>, FALSE, <<>>)),
                  ImageRaised("timeout")}
Codes == {"c"}
StateParams == {Absent} \cup (1..MaxTokens)

\* the session ids a client can send: its own, and those /api/new-session gave out
KnownSessionIds(own) == own \cup (DOMAIN chat_sessions \cap UuidIds)

ChatArgs ==
    {Args(ws, Hi, mo, sid, None, None, FALSE) :
        ws \in Browsers, mo \in {Gpt4, DallE}, sid \in KnownSessionIds({"s1"})}

Init ==
    /\ version \in Versions
    /\ users = <<>>
    /\ user_usage = <<>>
    /\ chat_sessions = <<>>
    /\ response_cache = <<>>
    /\ cache_stamp = <<>>
    /\ cache_origin = <<>>
    /\ cache_clock = 0
    /\ session = [ws \in Browsers |-> NoSession]
    /\ next_state = 0
    /\ consumed = {}
    /\ cb = [ws \in Browsers |-> FreeCallback]
    /\ req = [r \in Slots |-> FreeSlot]
    /\ increments = [e \in Emails |-> 0]
    /\ gateway_calls = [e \in Emails |-> 0]
    /\ api = NoAnswer

Next ==
    \/ \E ws \in Browsers : LoginGoogle(ws)
    \/ \E ws \in Browsers, code \in Codes, state \in StateParams : CallbackStart(ws, code, state)
    \/ \E ws \in Browsers, ok \in BOOLEAN : CallbackToken(ws, ok)
    \/ \E ws \in Browsers, e \in Emails : CallbackUserinfo(ws, Profile(e))
    \/ \E ws \in Browsers : CallbackUserinfo(ws, NoProfile)
    \/ \E ws \in Browsers : Logout(ws)
    \/ \E ws \in Browsers : create_new_session(ws)
    \/ \E r \in Slots, a \in ChatArgs : ChatStart(r, a)
    \/ \E r \in Slots, out \in TextOutcomes : ChatResponse(r, out)
    \/ \E r \in Slots, out \in ImageOutcomes : ImageResponse(r, out)
    \/ \E r \in Slots, out \in ImageOutcomes : ImageFallbackResponse(r, out)

Spec == Init /\ [][Next]_vars

(***************************************************************************)
(* SpecAuth: the auth gateway alone, two browsers.                         *)
(***************************************************************************)
AuthBrowsers == {1, 2}
\* the code parameter is missing or there; an empty one is refused like a missing one
AuthCodes == {"absent", "c"}

InitAuth ==
    /\ version \in Versions
    /\ users = <<>>
    /\ user_usage = <<>>
    /\ chat_sessions = <<>>
    /\ response_cache = <<>>
    /\ cache_stamp = <<>>
    /\ cache_origin = <<>>
    /\ cache_clock = 0
    /\ session = [ws \in AuthBrowsers |-> NoSession]
    /\ next_state = 0
    /\ consumed = {}
    /\ cb = [ws \in AuthBrowsers |-> FreeCallback]
    /\ req = [r \in Slots |-> FreeSlot]
    /\ increments = [e \in Emails |-> 0]
    /\ gateway_calls = [e \in Emails |-> 0]
    /\ api = NoAnswer

NextAuth ==
    \/ \E ws \in AuthBrowsers : LoginGoogle(ws)
    \/ \E ws \in AuthBrowsers, code \in AuthCodes, state \in StateParams :
           CallbackStart(ws, code, state)
    \/ \E ws \in AuthBrowsers, ok \in BOOLEAN : CallbackToken(ws, ok)
    \/ \E ws \in AuthBrowsers, e \in Emails : CallbackUserinfo(ws, Profile(e))
    \/ \E ws \in AuthBrowsers : CallbackUserinfo(ws, NoProfile)
    \/ \E ws \in AuthBrowsers : Logout(ws)

SpecAuth == InitAuth /\ [][NextAuth]_vars

(***************************************************************************)
(* SpecChat: the chat endpoint under concurrency.  It starts in the state  *)
(* two logins leave: browser 1 is the admin's, browser 2 the demo user's.  *)
(***************************************************************************)
ChatSlots == {1, 2}
HiYou == <<"hi", " ", "you">>

LoggedIn(ver, email) ==
    <<user_of(ver, Profile(email), <<>>)>>

DoneCallback(state) ==
    [FreeCallback EXCEPT !.pc = "done", !.code = "c", !.state = state, !.exchanges = 1,
         !.fetches = 1, !.result = "ok"]

\* the state after GET /auth/google and a successful callback in browser 1 (admin)
\* and then in browser 2 (demo user)
AfterLogins ==
    /\ version \in Versions
    /\ users = [i \in Emails |-> user_entry(version, Profile(i))]
    /\ user_usage = IF version = "dev" THEN [e \in Emails |-> ZeroUsage] ELSE <<>>
    /\ session = (1 :> [user |-> LoggedIn(version, ADMIN_EMAIL), oauth_state |-> Absent])
                 @@ (2 :> [user |-> LoggedIn(version, DEMO_EMAIL), oauth_state |-> Absent])
    /\ next_state = 2
    /\ consumed = {1, 2}
    /\ cb = (1 :> DoneCallback(1)) @@ (2 :> DoneCallback(2))
    /\ increments = [e \in Emails |-> 0]
    /\ gateway_calls = [e \in Emails |-> 0]
    /\ api = NoAnswer

InitChat ==
    /\ AfterLogins
    /\ chat_sessions = <<>>
    /\ response_cache = <<>>
    /\ cache_stamp = <<>>
    /\ cache_origin = <<>>
    /\ cache_clock = 0
    /\ req = [r \in ChatSlots |-> FreeSlot]

ChatArgs2 ==
    {Args(ws, m, mo, "s1", None, None, FALSE) :
        ws \in {1, 2}, m \in {Hi, HiYou}, mo \in {Gpt4, DallE}}
    \cup {Args(ws, Hi, Gpt4, "s1", TxtFile.content, TxtFile.name, FALSE) : ws \in {1, 2}}

ChatOutcomes == {Reply(ReplyOk), Reply(ReplyLong), Raised("timeout")}

NextChat ==
    \/ \E r \in ChatSlots, a \in ChatArgs2 : ChatStart(r, a)
    \/ \E r \in ChatSlots, out \in ChatOutcomes : ChatResponse(r, out)
    \/ \E r \in ChatSlots, out \in ImageOutcomes : ImageResponse(r, out)
    \/ \E r \in ChatSlots, out \in ImageOutcomes : ImageFallbackResponse(r, out)

SpecChat == InitChat /\ [][NextChat]_vars

(***************************************************************************)
(* SpecUsage: the usage tracker called directly, as a caller of            *)
(* auth_dev.py may: any sequence of increment_usage and check_demo_limits. *)
(***************************************************************************)
GUEST_EMAIL == "guest@example.com"
UsageEmails == {ADMIN_EMAIL, DEMO_EMAIL, GUEST_EMAIL}
TokenEstimates == {0, 3, 50, IMAGE_TOKENS}

InitUsage ==
    /\ version = "dev"
    /\ users = <<>>
    /\ user_usage = <<>>
    /\ chat_sessions = <<>>
    /\ response_cache = <<>>
    /\ cache_stamp = <<>>
    /\ cache_origin = <<>>
    /\ cache_clock = 0
    /\ session = [ws \in Browsers |-> NoSession]
    /\ next_state = 0
    /\ consumed = {}
    /\ cb = [ws \in Browsers |-> FreeCallback]
    /\ req = [r \in Slots |-> FreeSlot]
    /\ increments = [e \in UsageEmails |-> 0]
    /\ gateway_calls = [e \in UsageEmails |-> 0]
    /\ api = NoAnswer

IncrementUsage(email, t) ==
    /\ increments[email] < MaxCalls
    /\ user_usage' = increment_usage(user_usage, email, t)
    /\ increments' = [increments EXCEPT ![email] = @ + 1]
    /\ UNCHANGED <<version, users, chat_sessions, response_cache, cache_stamp, cache_clock,
                   session, next_state, cb, req, api, gateway_calls, cache_origin, consumed>>

CheckDemoLimits(email) ==
    /\ user_usage' = check_demo_limits(user_usage, email).usage
    /\ UNCHANGED <<version, users, chat_sessions, response_cache, cache_stamp, cache_clock,
                   session, next_state, cb, req, increments, api, gateway_calls, cache_origin,
                   consumed>>

NextUsage ==
    \/ \E e \in UsageEmails, t \in TokenEstimates : IncrementUsage(e, t)
    \/ \E e \in UsageEmails : CheckDemoLimits(e)

SpecUsage == InitUsage /\ [][NextUsage]_vars

(***************************************************************************)
(* C1.  For every email other than the admin's, after N calls of           *)
(* increment_usage starting from a fresh record the record's request_count *)
(* is N, and check_demo_limits answers not-allowed in every state where    *)
(* request_count >= DEMO_REQUEST_LIMIT.                                    *)
(***************************************************************************)
NonAdmin(email) == email # ADMIN_EMAIL

C1_CountsIncrements ==
    \A e \in DOMAIN increments :
        NonAdmin(e) =>
            /\ increments[e] > 0 => e \in DOMAIN user_usage
            /\ e \in DOMAIN user_usage =>
                  /\ user_usage[e].request_count = increments[e]
                  /\ user_usage[e].request_count >= DEMO_REQUEST_LIMIT
                        => ~check_demo_limits(user_usage, e).ok

\* three increments made; the limit check denies although the tokens are below their ceiling
C1_Witness ==
    /\ increments[DEMO_EMAIL] = 3
    /\ DEMO_EMAIL \in DOMAIN user_usage
    /\ user_usage[DEMO_EMAIL].token_count < DEMO_TOKEN_LIMIT
    /\ ~check_demo_limits(user_usage, DEMO_EMAIL).ok

(***************************************************************************)
(* SpecCache: the chat endpoint with a cache that is nearly or exactly     *)
(* full.  It starts in the state the two logins and then n text requests   *)
(* of the admin leave, request i asking Filler(i) in the session "warm"    *)
(* and being answered "ok": n = MAX_CACHE - 1 or n = MAX_CACHE.            *)
(***************************************************************************)
Filler(i) == <<ToString(i)>>

WarmCache(n) == [i \in 1..n |-> [key |-> cache_key(Gpt4, Filler(i), None), value |-> ReplyOk]]

\* the warm-up requests were the cache misses of one user, without a file
WarmOrigin(n, email) ==
    [k \in CacheKeys(WarmCache(n)) |->
        [email |-> email, model |-> Gpt4,
         user_content |-> Filler(CacheIndex(WarmCache(n), k))]]

WarmTurns(ver, n) ==
    [i \in 1..(2 * n) |->
        IF i % 2 = 1
        THEN Turn("user", Filler((i + 1) \div 2), None, IF ver = "dev" THEN "False" ELSE "absent")
        ELSE Turn("assistant", ReplyOk, None, "absent")]

InitCache ==
    /\ AfterLogins
    /\ \E n \in {MAX_CACHE - 1, MAX_CACHE} :
          /\ response_cache = WarmCache(n)
          /\ chat_sessions = (WarmSession :> WarmTurns(version, n))
          /\ cache_stamp = [k \in CacheKeys(WarmCache(n)) |-> CacheIndex(WarmCache(n), k)]
          /\ cache_origin = WarmOrigin(n, ADMIN_EMAIL)
          /\ cache_clock = n
    /\ req = [r \in ChatSlots |-> FreeSlot]

CacheArgs ==
    {Args(ws, m, Gpt4, "s1", None, None, FALSE) :
        ws \in {1, 2}, m \in {Filler(1), Filler(EVICT_COUNT + 1), Hi, HiYou}}

NextCache ==
    \/ \E r \in ChatSlots, a \in CacheArgs : ChatStart(r, a)
    \/ \E r \in ChatSlots, out \in ChatOutcomes : ChatResponse(r, out)

SpecCache == InitCache /\ [][NextCache]_vars

(***************************************************************************)
(* SpecSeq: the chat endpoint serving one request at a time (no request    *)
(* starts before the one before it has returned), after the two logins.    *)
(***************************************************************************)
SeqSlots == {1}
HiFile == <<"hi", " ", "file">>
LongFile == [content |-> <<"bG9uZw==">>, name |-> FileTxt]
BadFile == [content |-> <<"abc">>, name |-> <<"f", ".", "bin">>]

InitSeq ==
    /\ AfterLogins
    /\ chat_sessions = <<>>
    /\ response_cache = <<>>
    /\ cache_stamp = <<>>
    /\ cache_origin = <<>>
    /\ cache_clock = 0
    /\ req = [r \in SeqSlots |-> FreeSlot]

SeqArgs ==
    {Args(ws, m, mo, sid, None, None, FALSE) :
        ws \in {1, 2}, m \in {Hi, HiYou}, mo \in {Gpt4, DallE}, sid \in {"s1", "s2"}}
    \cup {Args(ws, HiFile, Gpt4, "s1", f.content, f.name, FALSE) :
              ws \in {1, 2}, f \in {TxtFile, LongFile, BadFile}}

NextSeq ==
    \/ \E r \in SeqSlots, a \in SeqArgs : ChatStart(r, a)
    \/ \E r \in SeqSlots, out \in ChatOutcomes : ChatResponse(r, out)
    \/ \E r \in SeqSlots, out \in ImageOutcomes : ImageResponse(r, out)
    \/ \E r \in SeqSlots, out \in ImageOutcomes : ImageFallbackResponse(r, out)

SpecSeq == InitSeq /\ [][NextSeq]_vars

(***************************************************************************)
(* SpecApi: every protected endpoint, called from three browsers: 1 holds  *)
(* the admin's session and 2 the demo user's (the state the two logins     *)
(* leave), 3 holds no identity.  One chat request is in flight at a time.   *)
(***************************************************************************)
ApiBrowsers == {1, 2, 3}
ApiSlots == {1}
UnknownSession == "s9"

InitApi ==
    /\ version \in Versions
    /\ users = [i \in Emails |-> user_entry(version, Profile(i))]
    /\ user_usage = IF version = "dev" THEN [e \in Emails |-> ZeroUsage] ELSE <<>>
    /\ session = (1 :> [user |-> LoggedIn(version, ADMIN_EMAIL), oauth_state |-> Absent])
                 @@ (2 :> [user |-> LoggedIn(version, DEMO_EMAIL), oauth_state |-> Absent])
                 @@ (3 :> NoSession)
    /\ next_state = 2
    /\ consumed = {1, 2}
    /\ cb = (1 :> DoneCallback(1)) @@ (2 :> DoneCallback(2)) @@ (3 :> FreeCallback)
    /\ increments = [e \in Emails |-> 0]
    /\ gateway_calls = [e \in Emails |-> 0]
    /\ api = NoAnswer
    /\ chat_sessions = <<>>
    /\ response_cache = <<>>
    /\ cache_stamp = <<>>
    /\ cache_origin = <<>>
    /\ cache_clock = 0
    /\ req = [r \in ApiSlots |-> FreeSlot]

ApiArgs ==
    {Args(ws, Hi, mo, sid, None, None, FALSE) :
        ws \in {2, 3}, mo \in {Gpt4, DallE}, sid \in KnownSessionIds({"s1"})}

NextApi ==
    \/ \E r \in ApiSlots, a \in ApiArgs : ChatStart(r, a)
    \/ \E r \in ApiSlots, out \in TextOutcomes : ChatResponse(r, out)
    \/ \E r \in ApiSlots, out \in ImageOutcomes : ImageResponse(r, out)
    \/ \E r \in ApiSlots, out \in ImageOutcomes : ImageFallbackResponse(r, out)
    \/ \E ws \in ApiBrowsers : create_new_session(ws)
    \/ \E ws \in ApiBrowsers, sid \in KnownSessionIds({"s1", UnknownSession}) :
           GetChatHistory(ws, sid)
    \/ \E ws \in ApiBrowsers : GetUsage(ws)
    \/ \E ws \in ApiBrowsers, fetched \in BOOLEAN : GetModels(ws, fetched)

SpecApi == InitApi /\ [][NextApi]_vars

(***************************************************************************)
(* SpecHistory: the operations on chat_sessions, interleaved: two chat     *)
(* requests in flight (text and image path) from the admin's browser,      *)
(* /api/chat-history and /api/new-session from the demo user's.            *)
(***************************************************************************)
HistoryArgs ==
    {Args(1, Hi, mo, sid, None, None, FALSE) :
        mo \in {Gpt4, DallE}, sid \in KnownSessionIds({"s1"})}

NextHistory ==
    \/ \E r \in ChatSlots, a \in HistoryArgs : ChatStart(r, a)
    \/ \E r \in ChatSlots, out \in TextOutcomes : ChatResponse(r, out)
    \/ \E r \in ChatSlots, out \in ImageOutcomes : ImageResponse(r, out)
    \/ \E r \in ChatSlots, out \in ImageOutcomes : ImageFallbackResponse(r, out)
    \/ \E ws \in {2} : create_new_session(ws)
    \/ \E ws \in {2}, sid \in KnownSessionIds({"s1", UnknownSession}) :
           GetChatHistory(ws, sid)

SpecHistory == InitChat /\ [][NextHistory]_vars

(***************************************************************************)
(* SpecClassify: the text path against everything the gateway can answer   *)
(* to POST /chat/completions, one request at a time, after the two logins. *)
(* client.post returns the response whatever its status (the text path     *)
(* does not call raise_for_status), or raises a timeout, a connection      *)
(* error or another exception.                                             *)
(***************************************************************************)
Statuses == {200, 401, 403, 404, 500}
NotFoundNamed == <<"NotFoundError:", " ", "'", "gpt-5", "'">>
NotFoundBare == <<"NotFoundError">>
ErrorValues == {<<"boom">>, NotFoundNamed, NotFoundBare, None}
ChoiceLists ==
    {<<>>,
     <<[has_content |-> FALSE, content |-> <<>>]>>,
     <<[has_content |-> TRUE, content |-> <<>>]>>,
     <<[has_content |-> TRUE, content |-> NoResponseReceived]>>,
     <<[has_content |-> TRUE, content |-> ReplyOk]>>}
Bodies ==
    {Body(FALSE, <<>>, FALSE, <<>>)}
    \cup {Body(FALSE, <<>>, TRUE, c) : c \in ChoiceLists}
    \cup {Body(TRUE, e, FALSE, <<>>) : e \in ErrorValues}
    \cup {Body(TRUE, e, TRUE, c) : e \in ErrorValues, c \in ChoiceLists}
ClassifyOutcomes ==
    {Raised(k) : k \in {"timeout", "connect", "other"}}
    \cup {Answer(st, b) : st \in Statuses, b \in Bodies}
    \cup {[Answer(st, Body(FALSE, <<>>, FALSE, <<>>)) EXCEPT !.json_ok = FALSE] :
              st \in Statuses}

ClassifyArgs == {Args(ws, Hi, Gpt4, "s1", None, None, FALSE) : ws \in {1, 2}}

NextClassify ==
    \/ \E r \in SeqSlots, a \in ClassifyArgs : ChatStart(r, a)
    \/ \E r \in SeqSlots, out \in ClassifyOutcomes : ChatResponse(r, out)

SpecClassify == InitSeq /\ [][NextClassify]_vars

(***************************************************************************)
(* SpecImage: the image path of main_dev.py against everything the gateway *)
(* can answer to POST /images/generations and to the fallback call, with   *)
(* text requests beside it; two requests may be in flight.                 *)
(***************************************************************************)
NoBody == Body(FALSE, <<>>, FALSE, <<>>)
ImagePathOutcomes ==
    {ImageAnswer(200, TRUE, NoBody),
     ImageAnswer(200, FALSE, Body(FALSE, <<>>, TRUE, <<[has_content |-> TRUE, content |-> ReplyOk]>>)),
     ImageAnswer(200, FALSE, NoBody),
     ImageAnswer(200, FALSE, Body(FALSE, <<>>, TRUE, <<>>)),
     ImageAnswer(404, FALSE, NoBody),
     ImageAnswer(500, FALSE, NoBody),
     [ImageAnswer(200, FALSE, NoBody) EXCEPT !.json_ok = FALSE],
     ImageRaised("timeout"),
     ImageRaised("connect")}

InitImage ==
    /\ InitChat
    /\ version = "dev"

ImageArgs ==
    {Args(ws, Hi, DallE, "s1", None, None, FALSE) : ws \in {1, 2}}
    \cup {Args(ws, Hi, Gpt4, "s1", None, None, i) : ws \in {1, 2}, i \in BOOLEAN}
    \cup {Args(2, HiFile, Gpt4, "s1", TxtFile.content, TxtFile.name, TRUE)}

NextImage ==
    \/ \E r \in ChatSlots, a \in ImageArgs : ChatStart(r, a)
    \/ \E r \in ChatSlots, out \in TextOutcomes : ChatResponse(r, out)
    \/ \E r \in ChatSlots, out \in ImagePathOutcomes : ImageResponse(r, out)
    \/ \E r \in ChatSlots, out \in ImagePathOutcomes : ImageFallbackResponse(r, out)

SpecImage == InitImage /\ [][NextImage]_vars

(***************************************************************************)
(* Steps of the chat endpoint, read off two successive states.             *)
(***************************************************************************)
\* slot r took a new request in this step
Started(r) == req[r].pc \in {"idle", "done"} /\ req'[r] # req[r]

\* the request of slot r returned in this step, after its last await
Finished(r) == req[r].pc \notin {"idle", "done"} /\ req'[r].pc = "done"

Counters(uu, email) == get_user_usage(uu, email)[email]

TurnsOf(cs, session_id) == IF session_id \in DOMAIN cs THEN cs[session_id] ELSE <<>>

(***************************************************************************)
(* C2.  For the admin email check_demo_limits answers allowed in every     *)
(* reachable state, and increment_usage leaves the usage table as it is,   *)
(* after any sequence of chat and image requests: no request of the admin  *)
(* is denied, the admin's record stays at zero, and no step of a request   *)
(* of the admin changes the usage table.                                   *)
(***************************************************************************)
C2_AdminState ==
    /\ check_demo_limits(user_usage, ADMIN_EMAIL).ok
    /\ \A r \in DOMAIN req : req[r].email = ADMIN_EMAIL => req[r].path # "denied"
    /\ ADMIN_EMAIL \in DOMAIN user_usage => user_usage[ADMIN_EMAIL] = ZeroUsage

C2_AdminStep ==
    \A r \in DOMAIN req :
        req'[r] # req[r] /\ req'[r].email = ADMIN_EMAIL => user_usage' = user_usage

C2_AdminUnlimited == []C2_AdminState /\ [][C2_AdminStep]_vars

\* increment_usage has run twice for the admin, after a text and an image success
C2_Witness ==
    /\ version = "dev"
    /\ increments[ADMIN_EMAIL] = 2
    /\ user_usage[ADMIN_EMAIL] = ZeroUsage
    /\ \E r, q \in DOMAIN req :
          /\ req[r].email = ADMIN_EMAIL /\ req[r].path = "image" /\ req[r].resp.kind = "content"
          /\ req[q].email = ADMIN_EMAIL /\ req[q].path = "text_miss"
          /\ req[q].resp.kind = "content"

(***************************************************************************)
(* C3.  Cache idempotence on the text path: if a first chat call returned  *)
(* content, a second chat call with the identical (model, message,         *)
(* file_name) returns the same content and makes no upstream call, for any *)
(* authenticated user.                                                     *)
(***************************************************************************)
\* slot p holds a text-path request that returned content
ReturnedContent(p) ==
    /\ req[p].pc = "done"
    /\ req[p].path \in {"text_hit", "text_miss"}
    /\ req[p].resp.kind = "content"

\* slot q takes, in this step, a text-path request with the triple of slot p's request
SecondCall(p, q) ==
    /\ Started(q)
    /\ req'[q].path # "unauthorized"
    /\ req'[q].path # "image"
    /\ ~is_image_generation_model(req'[q].model)
    /\ req'[q].model = req[p].model
    /\ req'[q].message = req[p].message
    /\ req'[q].file_name = req[p].file_name

ServedFromCache(p, q) ==
    /\ req'[q].pc = "done"
    /\ req'[q].resp = Payload("content", req[p].resp.text, req[p].file_name)
    /\ req'[q].calls = 0

\* the claim as stated
C3_AsStated ==
    [][\A p, q \in DOMAIN req :
          ReturnedContent(p) /\ SecondCall(p, q) => ServedFromCache(p, q)]_vars

\* the reply of slot p's request is what the cache holds under its key
StillCached(p) ==
    LET key == cache_key(req[p].model, req[p].message, req[p].file_name)
    IN  /\ key \in CacheKeys(response_cache)
        /\ CacheGet(response_cache, key) = req[p].resp.text

\* as amended: the second call is not denied by the limit check and the first call's
\* reply is still the cache entry of the key; and a text-path request that returns
\* content leaves its reply in the cache under its key
C3_Idempotent ==
    [][/\ \A p, q \in DOMAIN req :
             ReturnedContent(p) /\ SecondCall(p, q) /\ StillCached(p)
                 /\ req'[q].path # "denied"
             => ServedFromCache(p, q)
       /\ \A p \in DOMAIN req :
             req'[p] # req[p] /\ req'[p].pc = "done" /\ req'[p].resp.kind = "content"
                 /\ req'[p].path \in {"text_hit", "text_miss"}
             => LET key == cache_key(req'[p].model, req'[p].message, req'[p].file_name)
                IN  /\ key \in CacheKeys(response_cache')
                    /\ CacheGet(response_cache', key) = req'[p].resp.text]_vars

\* the demo user's second identical call was served from the cache, the first in the other slot
C3_Witness ==
    \E p, q \in DOMAIN req :
        /\ p # q
        /\ req[p].email = DEMO_EMAIL /\ req[q].email = DEMO_EMAIL
        /\ req[p].path = "text_miss" /\ req[p].resp.kind = "content"
        /\ req[q].path = "text_hit" /\ req[q].resp = req[p].resp /\ req[q].calls = 0
        /\ req[q].model = req[p].model /\ req[q].message = req[p].message
        /\ req[q].file_name = req[p].file_name

(***************************************************************************)
(* C8.  On a text-path cache hit in main_dev.py the cached reply is        *)
(* appended as one assistant turn and returned with no upstream call, the  *)
(* usage counters of the requesting user are unchanged, and the cache      *)
(* contents and insertion order are unchanged.                             *)
(***************************************************************************)
HitStep(r) == Started(r) /\ req'[r].path = "text_hit" /\ version = "dev"

C8_HitFrame ==
    [][\A r \in DOMAIN req :
          HitStep(r) =>
              LET slot == req'[r]
                  cached == CacheGet(response_cache, slot.cache_key)
                  before == TurnsOf(chat_sessions, slot.session_id)
                  after == TurnsOf(chat_sessions', slot.session_id)
              IN  /\ slot.cache_key = cache_key(slot.model, slot.message, slot.file_name)
                  /\ slot.cache_key \in CacheKeys(response_cache)
                  /\ Len(after) = Len(before) + 2
                  /\ SubSeq(after, 1, Len(before)) = before
                  /\ after[Len(after) - 1].role = "user"
                  /\ after[Len(after) - 1].content = slot.message
                  /\ after[Len(after)] = Turn("assistant", cached, None, "absent")
                  /\ \A sid \in DOMAIN chat_sessions' :
                        sid # slot.session_id =>
                            sid \in DOMAIN chat_sessions
                            /\ chat_sessions'[sid] = chat_sessions[sid]
                  /\ slot.pc = "done"
                  /\ slot.calls = 0
                  /\ slot.resp = Payload("content", cached, slot.file_name)
                  /\ Counters(user_usage', slot.email) = Counters(user_usage, slot.email)
                  /\ response_cache' = response_cache]_vars

\* the demo user was served the oldest entry of a full cache, and the hit was not counted
C8_Witness ==
    \E r \in DOMAIN req :
        /\ version = "dev"
        /\ req[r].path = "text_hit"
        /\ req[r].email = DEMO_EMAIL
        /\ Len(response_cache) = MAX_CACHE
        /\ response_cache[1].key = req[r].cache_key
        /\ user_usage[DEMO_EMAIL] = ZeroUsage
        /\ Len(TurnsOf(chat_sessions, "s1")) = 2
        /\ chat_sessions["s1"][2] = Turn("assistant", req[r].resp.text, None, "absent")

(***************************************************************************)
(* C9.  When check_demo_limits denies a POST /api/chat request in          *)
(* main_dev.py the handler returns an error payload at once: no upstream   *)
(* call, no assistant turn appended to any session, the response cache and *)
(* the user's counters unchanged; the only session change allowed is the   *)
(* user's own turn.                                                        *)
(***************************************************************************)
DeniedStep(r) == Started(r) /\ req'[r].path = "denied"

C9_DeniedFrame ==
    [][\A r \in DOMAIN req :
          DeniedStep(r) =>
              LET slot == req'[r]
              IN  /\ version = "dev"
                  /\ slot.pc = "done"
                  /\ slot.calls = 0
                  /\ slot.resp.kind = "error"
                  /\ slot.resp.text \in {RequestLimitMsg, TokenLimitMsg}
                  /\ slot.resp.file_name = slot.file_name
                  /\ \/ chat_sessions' = chat_sessions
                     \/ \E t \in {"True", "False"}, f \in {None, slot.file_name} :
                           chat_sessions' =
                               SessionPush(SessionInit(chat_sessions, slot.session_id),
                                   slot.session_id, Turn("user", slot.message, f, t))
                  /\ response_cache' = response_cache
                  /\ Counters(user_usage', slot.email) = Counters(user_usage, slot.email)]_vars

\* the demo user is denied at the request ceiling, with a reply in the cache
C9_Witness ==
    \E r \in DOMAIN req :
        /\ req[r].path = "denied"
        /\ req[r].email = DEMO_EMAIL
        /\ req[r].resp = Payload("error", RequestLimitMsg, None)
        /\ user_usage[DEMO_EMAIL].request_count = DEMO_REQUEST_LIMIT
        /\ response_cache # <<>>

(***************************************************************************)
(* C4.  Cache eviction is FIFO by insertion order: whenever a successful   *)
(* text-path reply is stored and the cache then holds more than 100        *)
(* entries, exactly the 20 earliest-inserted keys are removed, however     *)
(* recently or often they were served as hits; inserting 101 distinct keys *)
(* leaves at most 81 entries, the 20 earliest-inserted keys absent.        *)
(***************************************************************************)
\* the request of slot r stored its reply in this step
StoreStep(r) == Finished(r) /\ req'[r].path = "text_miss" /\ req'[r].resp.kind = "content"

C4_EvictStep ==
    \A r \in DOMAIN req :
        StoreStep(r) =>
            LET key == req[r].cache_key
                old == CacheKeys(response_cache)
                held == old \cup {key}
                now == CacheKeys(response_cache')
                removed == held \ now
            IN  /\ now \subseteq held
                /\ key \in now
                /\ CacheGet(response_cache', key) = req'[r].resp.text
                /\ \A k \in now \ {key} :
                      CacheGet(response_cache', k) = CacheGet(response_cache, k)
                /\ IF Cardinality(held) > MAX_CACHE
                   THEN /\ Cardinality(removed) = EVICT_COUNT
                        /\ removed \subseteq old
                        /\ \A k \in removed, j \in now \ {key} :
                              cache_stamp[k] < cache_stamp[j]
                   ELSE removed = {}

C4_After101 ==
    cache_clock = MAX_CACHE + 1 =>
        /\ Len(response_cache) <= MAX_CACHE + 1 - EVICT_COUNT
        /\ \A i \in 1..EVICT_COUNT :
              cache_key(Gpt4, Filler(i), None) \notin CacheKeys(response_cache)

C4_FifoEviction == []C4_After101 /\ [][C4_EvictStep]_vars

\* the oldest key was served as a hit, and the 101st insertion removed it all the same
C4_Witness ==
    \E r \in DOMAIN req :
        /\ req[r].path = "text_hit"
        /\ req[r].cache_key = cache_key(Gpt4, Filler(1), None)
        /\ req[r].cache_key \notin CacheKeys(response_cache)
        /\ cache_clock = MAX_CACHE + 1
        /\ Len(response_cache) = MAX_CACHE + 1 - EVICT_COUNT
        /\ response_cache[1].key = cache_key(Gpt4, Filler(EVICT_COUNT + 1), None)

(***************************************************************************)
(* C5.  The response cache is bounded: in every state between two request  *)
(* steps, also with chat requests interleaved at their upstream calls,     *)
(* response_cache holds at most 100 entries.                               *)
(***************************************************************************)
C5_CacheBounded == Len(response_cache) <= MAX_CACHE

\* a reply was stored in a full cache while another request was waiting for the gateway
C5_Witness ==
    /\ cache_clock = MAX_CACHE + 1
    /\ Len(response_cache) = MAX_CACHE + 1 - EVICT_COUNT
    /\ \E r \in DOMAIN req : req[r].pc = "upstream"

(***************************************************************************)
(* C10.  A successful text-path cache-miss request of a non-admin user in  *)
(* main_dev.py, run without interleaving, extends the session by exactly   *)
(* two turns, user then assistant, stores the reply under the request's    *)
(* cache key, adds 1 to request_count and word-count(upstream user         *)
(* content) + word-count(reply) to token_count, and returns the reply as   *)
(* content.                                                                *)
(***************************************************************************)
DemoMiss(slot) ==
    version = "dev" /\ slot.path = "text_miss" /\ NonAdmin(slot.email)

\* the request of slot r has returned content: what it left behind
C10_Returned ==
    \A r \in DOMAIN req :
        DemoMiss(req[r]) /\ req[r].pc = "done" /\ req[r].resp.kind = "content" =>
            LET slot == req[r]
                t == TurnsOf(chat_sessions, slot.session_id)
            IN  /\ Len(t) >= 2
                /\ t[Len(t) - 1].role = "user"
                /\ t[Len(t) - 1].content = slot.message
                /\ t[Len(t)] = Turn("assistant", slot.resp.text, None, "absent")
                /\ slot.cache_key = cache_key(slot.model, slot.message, slot.file_name)
                /\ slot.cache_key \in CacheKeys(response_cache)
                /\ CacheGet(response_cache, slot.cache_key) = slot.resp.text
                /\ slot.resp.file_name = slot.file_name

\* its two steps: each appends one turn; the second counts the request
C10_Steps ==
    \A r \in DOMAIN req :
        /\ Started(r) /\ DemoMiss(req'[r]) =>
              LET before == TurnsOf(chat_sessions, req'[r].session_id)
                  after == TurnsOf(chat_sessions', req'[r].session_id)
              IN  /\ Len(after) = Len(before) + 1
                  /\ SubSeq(after, 1, Len(before)) = before
                  /\ after[Len(after)].role = "user"
                  /\ Counters(user_usage', req'[r].email) = Counters(user_usage, req'[r].email)
        /\ Finished(r) /\ DemoMiss(req[r]) /\ req'[r].resp.kind = "content" =>
              LET reply == req'[r].resp.text
                  c == Counters(user_usage, req[r].email)
              IN  /\ chat_sessions' = SessionPush(chat_sessions, req[r].session_id,
                                          Turn("assistant", reply, None, "absent"))
                  /\ Counters(user_usage', req[r].email) =
                        [request_count |-> c.request_count + 1,
                         token_count |-> c.token_count + WordCount(req[r].user_content)
                                             + WordCount(reply)]

C10_MissSuccess == []C10_Returned /\ [][C10_Steps]_vars

\* "hi" to gpt-4 in the empty session s1 by the demo user with no usage yet, answered "ok"
C10_Witness ==
    /\ version = "dev"
    /\ DOMAIN chat_sessions = {"s1"}
    /\ chat_sessions["s1"] = <<Turn("user", Hi, None, "False"),
                               Turn("assistant", ReplyOk, None, "absent")>>
    /\ user_usage[DEMO_EMAIL] = [request_count |-> 1, token_count |-> 2]
    /\ req[1].resp = Payload("content", ReplyOk, None)
    /\ response_cache = <<[key |-> cache_key(Gpt4, Hi, None), value |-> ReplyOk]>>

(***************************************************************************)
(* C6.  A callback whose state query parameter does not equal the          *)
(* oauth_state stored in the session fails with invalid_state, performs no *)
(* token exchange and never establishes an identity in the session; the    *)
(* check runs before the authorization code is examined.                   *)
(***************************************************************************)
\* a callback request arrived at browser session ws in this step
Arrived(ws) == cb[ws].pc \in {"idle", "done"} /\ cb'[ws] # cb[ws]

C6_Rejected ==
    \A ws \in DOMAIN cb :
        cb[ws].result = "invalid_state" =>
            cb[ws].pc = "done" /\ cb[ws].exchanges = 0 /\ cb[ws].fetches = 0

C6_ArriveStep ==
    \A ws \in DOMAIN cb :
        Arrived(ws) /\ cb'[ws].state # session[ws].oauth_state =>
            /\ cb'[ws].result = "invalid_state"
            /\ cb'[ws].pc = "done"
            /\ cb'[ws].exchanges = 0
            /\ session' = session
            /\ users' = users

C6_StateMismatch == []C6_Rejected /\ [][C6_ArriveStep]_vars

\* a callback without a code, whose state differs from the issued one, in an anonymous session
C6_Witness ==
    \E ws \in DOMAIN cb :
        /\ cb[ws].result = "invalid_state"
        /\ ~HasCode(cb[ws].code)
        /\ cb[ws].state # Absent
        /\ session[ws].oauth_state # Absent
        /\ cb[ws].state # session[ws].oauth_state
        /\ session[ws].user = <<>>

(***************************************************************************)
(* C7.  Sign-in requires passing through state_issued and presenting the   *)
(* issued state: a callback arriving in a session with no stored           *)
(* oauth_state never authenticates, whatever query parameters it carries   *)
(* or omits.  A callback passes the state check only with a state equal to *)
(* the stored one, so the callback that authenticated a session carried an *)
(* issued state.                                                           *)
(***************************************************************************)
C7_AsStated ==
    \A ws \in DOMAIN cb :
        cb[ws].result = "ok" /\ session[ws].user # <<>> => cb[ws].state # Absent

(***************************************************************************)
(* C11.  Every protected endpoint of main_dev.py and v1.2.0 (/api/models,  *)
(* /api/chat, /api/chat-history/{id}, /api/new-session, and /api/usage in  *)
(* main_dev) answers HTTP 401 when the web session holds no identity, and  *)
(* then makes no upstream call and leaves chat_sessions, response_cache    *)
(* and user_usage unchanged.                                               *)
(***************************************************************************)
Anonymous(ws) == session[ws].user = <<>>

StoresUnchanged ==
    /\ chat_sessions' = chat_sessions
    /\ response_cache' = response_cache
    /\ user_usage' = user_usage

C11_Step ==
    /\ \A r \in DOMAIN req :
          Started(r) /\ Anonymous(req'[r].ws) =>
              /\ req'[r].pc = "done"
              /\ req'[r].resp.kind = "http_401"
              /\ req'[r].calls = 0
              /\ StoresUnchanged
    /\ api' # api /\ Anonymous(api'.ws) =>
          /\ api'.op \in {"models", "chat-history", "new-session", "usage"}
          /\ api'.status = 401
          /\ api'.calls = 0
          /\ StoresUnchanged

C12_AsStated ==
    [][api' # api /\ api'.op = "usage" /\ api'.status = 200 =>
          LET user == session[api'.ws].user[1]
              record == Counters(user_usage, user.email)
          IN  ~user.is_admin =>
                  /\ api'.body.request_count = record.request_count
                  /\ api'.body.token_count = record.token_count]_vars

(***************************************************************************)
(* C13.  On the text path of main_dev.py, an upstream chat-completions     *)
(* response with an HTTP error status is classified as an HTTP status      *)
(* error: 404 yields "Model '<model>' not found", 401 "Authentication      *)
(* failed. Please check your API key.", 403 "Access forbidden...", any     *)
(* other error status the generic "API error (<status>)" message.          *)
(***************************************************************************)
\* the request of slot r went to the gateway and has returned
Answered(r) == req[r].pc = "done" /\ req[r].path = "text_miss"

C13_AsStated ==
    \A r \in DOMAIN req :
        /\ version = "dev"
        /\ Answered(r)
        /\ req[r].answer.kind = "response"
        /\ req[r].answer.status >= 400
        => /\ req[r].resp.kind = "error"
           /\ req[r].resp.text =
                 IF req[r].answer.status = 404
                 THEN <<"Model", " ", "'">> \o req[r].model \o <<"'", " ", "not", " ", "found.">>
                 ELSE IF req[r].answer.status = 401
                 THEN <<"Authentication failed. Please check your API key.">>
                 ELSE IF req[r].answer.status = 403
                 THEN <<"Access forbidden.">>
                 ELSE <<"API error (", ToString(req[r].answer.status), ")">>

(***************************************************************************)
(* C14.  Response-body classification on the text path (main_dev.py,       *)
(* v1.2.0) has a fixed precedence: a body with an 'error' field yields a   *)
(* model-not-found or generic API error even if 'choices' is also present; *)
(* otherwise a missing or empty 'choices' list yields "Invalid response    *)
(* format from API"; otherwise empty content or the placeholder "No        *)
(* response received" yields "No response content received from API";     *)
(* only otherwise is the request a success.                                *)
(***************************************************************************)
ModelNotFound(text) ==
    /\ Len(text) >= 3
    /\ text[1] = "Model"
    /\ SubSeq(text, Len(text) - 2, Len(text)) = <<"not", " ", "found.">>

C14_AsStated ==
    \A r \in DOMAIN req :
        Answered(r) /\ req[r].answer.kind = "response" /\ req[r].answer.json_ok =>
            LET body == req[r].answer.body
                resp == req[r].resp
                content == body.choices[1].content
            IN  IF body.has_error
                THEN /\ resp.kind = "error"
                     /\ ModelNotFound(resp.text) \/ resp.text = body.error
                ELSE IF ~body.has_choices \/ body.choices = <<>>
                THEN resp = Payload("error", <<"Invalid response format from API">>,
                                    req[r].file_name)
                ELSE IF ~body.choices[1].has_content \/ content = <<>>
                        \/ content = NoResponseReceived
                THEN resp = Payload("error", <<"No response content received from API">>,
                                    req[r].file_name)
                ELSE resp = Payload("content", content, req[r].file_name)

(***************************************************************************)
(* C15.  Every image-path request in main_dev.py that passes the limit     *)
(* check appends exactly one assistant turn to the session, whether the    *)
(* upstream outcome is an image URL, a text fallback, a bad HTTP status, a *)
(* timeout or a malformed body, and never raises outward: every failure    *)
(* becomes a formatted assistant message returned in the payload.          *)
(***************************************************************************)
C15_Step ==
    \A r \in DOMAIN req :
        /\ Started(r) /\ req'[r].path = "image" =>
              LET before == TurnsOf(chat_sessions, req'[r].session_id)
                  after == TurnsOf(chat_sessions', req'[r].session_id)
              IN  /\ Len(after) = Len(before) + 1
                  /\ after[Len(after)].role = "user"
                  /\ req'[r].pc = "image"
        /\ req[r].pc = "image" /\ req'[r].pc = "image_fallback" =>
              chat_sessions' = chat_sessions
        /\ Finished(r) /\ req[r].path = "image" =>
              /\ req'[r].resp.kind \in {"content", "error"}
              /\ req'[r].resp.text # <<>>
              /\ \E flag \in {"True", "False"} :
                    chat_sessions' = SessionPush(chat_sessions, req[r].session_id,
                                         Turn("assistant", req'[r].resp.text, None, flag))

C15_ImageTurn == [][C15_Step]_vars

\* an image request failed after the fallback call: its error message is the one
\* assistant turn after the user's
C15_Witness ==
    \E r \in DOMAIN req :
        /\ req[r].path = "image" /\ req[r].pc = "done" /\ req[r].calls = 2
        /\ req[r].resp = Payload("error", ImageError, None)
        /\ chat_sessions["s1"] = <<Turn("user", Hi, None, "False"),
                                   Turn("assistant", ImageError, None, "False")>>

(***************************************************************************)
(* C16.  For a non-admin user, a successful image-path request increases   *)
(* request_count by exactly 1 and token_count by exactly 100 independent   *)
(* of prompt and reply length, and a failed image-path request leaves both *)
(* counters unchanged.                                                     *)
(***************************************************************************)
C16_Step ==
    \A r \in DOMAIN req :
        req[r].path = "image" /\ NonAdmin(req[r].email) /\ req'[r] # req[r]
        /\ req[r].pc \in {"image", "image_fallback"} =>
            LET c == Counters(user_usage, req[r].email)
                d == Counters(user_usage', req[r].email)
            IN  IF req'[r].pc = "done" /\ req'[r].resp.kind = "content"
                THEN d = [request_count |-> c.request_count + 1,
                          token_count |-> c.token_count + 100]
                ELSE d = c

C16_ImageUsage == [][C16_Step]_vars

\* the demo user's image request with an uploaded file was answered with text, and
\* another image request of the demo user failed
C16_Witness ==
    /\ user_usage[DEMO_EMAIL] = [request_count |-> 1, token_count |-> 100]
    /\ \E r, q \in DOMAIN req :
          /\ req[r].email = DEMO_EMAIL /\ req[r].path = "image"
          /\ req[r].message = HiFile /\ req[r].resp = Payload("content", ReplyOk, FileTxt)
          /\ req[q].email = DEMO_EMAIL /\ req[q].path = "image"
          /\ req[q].pc = "done" /\ req[q].resp.kind = "error"

(***************************************************************************)
(* C17.  No upstream failure is retried: a single POST /api/chat in        *)
(* main_dev.py issues at most one gateway call on the text path and at     *)
(* most two on the image path, the second being a chat-completions call    *)
(* issued only when the image endpoint answered 404; after a timeout, a    *)
(* connection failure or a non-404 error no further gateway call is made   *)
(* for that request.                                                       *)
(***************************************************************************)
C17_Calls ==
    \A r \in DOMAIN req :
        /\ req[r].path \in {"none", "unauthorized", "denied", "text_hit"} => req[r].calls = 0
        /\ req[r].path = "text_miss" => req[r].calls = 1
        /\ req[r].path = "image" => req[r].calls \in {1, 2}
        /\ req[r].calls = 2 /\ req[r].pc # "done" => req[r].pc = "image_fallback"

C17_Step ==
    \A r \in DOMAIN req :
        /\ \A out \in ImagePathOutcomes :
              ImageResponse(r, out) =>
                  IF out.kind = "response" /\ out.status = 404
                  THEN req'[r].pc = "image_fallback" /\ req'[r].calls = 2
                  ELSE req'[r].pc = "done" /\ req'[r].calls = 1
        /\ \A out \in ImagePathOutcomes :
              ImageFallbackResponse(r, out) => req'[r].pc = "done" /\ req'[r].calls = 2
        /\ \A out \in TextOutcomes :
              ChatResponse(r, out) => req'[r].pc = "done" /\ req'[r].calls = 1
        /\ req'[r].calls > req[r].calls /\ ~Started(r) =>
              req[r].pc = "image" /\ req'[r].pc = "image_fallback"

C17_NoRetry == []C17_Calls /\ [][C17_Step]_vars

\* one request made the fallback call and failed there, the other timed out on the
\* text path: neither called the gateway again
C17_Witness ==
    \E r, q \in DOMAIN req :
        /\ req[r].path = "image" /\ req[r].pc = "done" /\ req[r].calls = 2
        /\ req[r].resp.kind = "error"
        /\ req[q].path = "text_miss" /\ req[q].pc = "done" /\ req[q].calls = 1
        /\ req[q].answer.kind = "timeout"

(***************************************************************************)
(* C18.  Session turns are append-only and ordered: for every session id,  *)
(* across any sequence and interleaving of chat, image, chat-history and   *)
(* new-session operations, the turn list at an earlier time is a prefix of *)
(* the turn list at every later time, and no operation removes a session   *)
(* id from the store; GET /api/chat-history for an unknown id returns an   *)
(* empty list without creating the session.                                *)
(***************************************************************************)
IsPrefix(s, t) == Len(s) <= Len(t) /\ SubSeq(t, 1, Len(s)) = s

C18_Step ==
    /\ \A sid \in DOMAIN chat_sessions :
          /\ sid \in DOMAIN chat_sessions'
          /\ IsPrefix(chat_sessions[sid], chat_sessions'[sid])
    /\ api' # api /\ api'.op = "chat-history" /\ api'.status = 200 =>
          /\ chat_sessions' = chat_sessions
          /\ api'.body = TurnsOf(chat_sessions, api'.arg)
          /\ api'.arg \notin DOMAIN chat_sessions =>
                api'.body = <<>> /\ api'.arg \notin DOMAIN chat_sessions'

C18_AppendOnly == [][C18_Step]_vars

\* two interleaved requests wrote session s1, a session was made by /api/new-session,
\* and the history of an unknown id was asked for
C18_Witness ==
    /\ api.op = "chat-history" /\ api.arg = UnknownSession /\ api.body = <<>>
    /\ UnknownSession \notin DOMAIN chat_sessions
    /\ "uuid-1" \in DOMAIN chat_sessions
    /\ Len(TurnsOf(chat_sessions, "s1")) = 4
    /\ chat_sessions["s1"][1].role = "user" /\ chat_sessions["s1"][2].role = "user"
    /\ chat_sessions["s1"][3].role = "assistant"
    /\ chat_sessions["s1"][4].image = "True"

(***************************************************************************)
(* C19.  Concurrent chat requests touching the same email race so that     *)
(* lost updates are possible: there is an interleaving of successful       *)
(* non-cached requests by one non-admin user after which request_count (or *)
(* token_count) is smaller than the number (or sum of estimates) of        *)
(* increments performed.                                                   *)
(***************************************************************************)
\* both slots hold successful non-cached requests of email that ran interleaved in one
\* session: both user turns were appended before either assistant turn
Overlapped(email) ==
    /\ \A r \in DOMAIN req :
          /\ req[r].email = email /\ req[r].pc = "done" /\ req[r].path = "text_miss"
          /\ req[r].resp.kind = "content" /\ req[r].session_id = "s1"
    /\ Len(TurnsOf(chat_sessions, "s1")) = 4
    /\ chat_sessions["s1"][1].role = "user" /\ chat_sessions["s1"][2].role = "user"
    /\ chat_sessions["s1"][3].role = "assistant" /\ chat_sessions["s1"][4].role = "assistant"

\* as stated: after such an interleaving an increment is missing
C19_AsStated ==
    \A e \in Emails :
        version = "dev" /\ NonAdmin(e) /\ Overlapped(e) =>
            \/ user_usage[e].request_count < increments[e]
            \/ user_usage[e].token_count
                  < estimated_tokens(req[1].resp.text, req[1].user_content)
                    + estimated_tokens(req[2].resp.text, req[2].user_content)

\* as amended: no increment is lost in any interleaving
C19_Counted ==
    version = "dev" =>
        \A e \in Emails : NonAdmin(e) => user_usage[e].request_count = increments[e]

C19_Step ==
    \A r \in DOMAIN req :
        Finished(r) /\ version = "dev" /\ NonAdmin(req[r].email)
        /\ req'[r].resp.kind = "content" =>
            LET c == Counters(user_usage, req[r].email)
                t == IF req[r].path = "image" THEN IMAGE_TOKENS
                     ELSE estimated_tokens(req'[r].resp.text, req[r].user_content)
            IN  Counters(user_usage', req[r].email) =
                    [request_count |-> c.request_count + 1,
                     token_count |-> c.token_count + t]

C19_NoLostUpdate == []C19_Counted /\ [][C19_Step]_vars

\* two interleaved successful requests of the demo user, both counted
C19_Witness ==
    /\ Overlapped(DEMO_EMAIL)
    /\ increments[DEMO_EMAIL] = 2
    /\ user_usage[DEMO_EMAIL].request_count = 2
    /\ user_usage[DEMO_EMAIL].token_count =
          estimated_tokens(req[1].resp.text, req[1].user_content)
          + estimated_tokens(req[2].resp.text, req[2].user_content)
    /\ req[1].message # req[2].message

(***************************************************************************)
(* C20.  Any OAuth callback that ends in an error redirect (invalid_state, *)
(* no_code, or auth_failed after an exception in token exchange or profile *)
(* fetch) leaves the session identity and the process-wide users table     *)
(* exactly as they were before the callback, and performs at most one      *)
(* token-exchange attempt and at most one profile fetch (no retry).        *)
(***************************************************************************)
C20_Attempts ==
    \A ws \in DOMAIN cb :
        /\ cb[ws].exchanges <= 1
        /\ cb[ws].fetches <= cb[ws].exchanges
        /\ cb[ws].result \in {"invalid_state", "no_code"} =>
              cb[ws].exchanges = 0 /\ cb[ws].pc = "done"
        /\ cb[ws].result = "auth_failed" => cb[ws].exchanges = 1 /\ cb[ws].pc = "done"

\* every step of a callback other than the one that signs in
C20_Step ==
    \A ws \in DOMAIN cb :
        cb'[ws] # cb[ws] /\ cb'[ws].result # "ok" =>
            session' = session /\ users' = users

C20_ErrorRedirect == []C20_Attempts /\ [][C20_Step]_vars

\* a signed-in browser went through /auth/google again and the profile fetch of its
\* callback failed: the earlier identity and the issued state are still in the session
C20_Witness ==
    \E ws \in DOMAIN cb :
        /\ cb[ws].result = "auth_failed"
        /\ cb[ws].fetches = 1
        /\ session[ws].user # <<>>
        /\ session[ws].oauth_state = cb[ws].state
        /\ cb[ws].state # Absent
        /\ DOMAIN users # {}

(***************************************************************************)
(* SpecOutcomes: POST /api/chat of main_dev.py, v1.2.0 and v1.0.0 against  *)
(* everything the gateway can answer and every kind of upload, one request *)
(* at a time.  In main_dev.py and v1.2.0 the two users are logged in;      *)
(* v1.0.0 has no login.                                                    *)
(***************************************************************************)
AllVersions == Versions \cup {"v1.0.0"}
BinFile == [content |-> <<"/w==">>, name |-> FileTxt]
NotFoundGroup == ErrorObject(<<"NotFoundError:", " ", "Model Group=", "gpt-5">>)

InitOutcomes ==
    /\ \/ AfterLogins
       \/ /\ version = "v1.0.0"
          /\ users = <<>>
          /\ user_usage = <<>>
          /\ session = [ws \in {1, 2} |-> NoSession]
          /\ next_state = 0
          /\ consumed = {}
          /\ cb = [ws \in {1, 2} |-> FreeCallback]
          /\ increments = [e \in Emails |-> 0]
          /\ gateway_calls = [e \in Emails |-> 0]
          /\ api = NoAnswer
    /\ chat_sessions = <<>>
    /\ response_cache = <<>>
    /\ cache_stamp = <<>>
    /\ cache_origin = <<>>
    /\ cache_clock = 0
    /\ req = [r \in SeqSlots |-> FreeSlot]

OutcomeArgs ==
    {Args(2, Hi, mo, "s1", None, None, i) : mo \in {Gpt4, DallE}, i \in BOOLEAN}
    \cup {Args(2, HiFile, Gpt4, "s1", f.content, f.name, FALSE) :
              f \in {TxtFile, BadFile, BinFile}}
    \cup {Args(1, Hi, Gpt4, "s1", None, None, FALSE)}

AnyOutcomes ==
    {Reply(ReplyOk), Reply(NonString), Reply(None), Reply(<<>>),
     ErrorBody(200, <<"boom">>), ErrorBody(200, None),
     ErrorBody(200, ErrorObject(<<"boom">>)), ErrorBody(404, NotFoundGroup),
     Answer(200, NoBody), Answer(200, Body(FALSE, <<>>, TRUE, <<>>)),
     Answer(500, NoBody), [Answer(200, NoBody) EXCEPT !.json_ok = FALSE],
     Raised("timeout"), Raised("connect"), Raised("other")}

NextOutcomes ==
    \/ \E r \in SeqSlots, a \in OutcomeArgs : ChatStart(r, a)
    \/ \E r \in SeqSlots, out \in AnyOutcomes : ChatResponse(r, out)
    \/ \E r \in SeqSlots, out \in ImagePathOutcomes : ImageResponse(r, out)
    \/ \E r \in SeqSlots, out \in ImagePathOutcomes : ImageFallbackResponse(r, out)

SpecOutcomes == InitOutcomes /\ [][NextOutcomes]_vars

(***************************************************************************)
(* C21.  Every POST /api/chat the handler runs for (an authenticated user  *)
(* in main_dev.py and v1.2.0, anyone in v1.0.0) returns a payload that has *)
(* exactly one of 'content' and 'error', whatever the gateway answers      *)
(* (a reply, an error body, no choices, a bad status, a timeout, a         *)
(* connection failure, malformed JSON, another exception) and whatever     *)
(* the upload decodes to: no answer of the gateway leaves the request      *)
(* without a payload or with an unhandled exception, and in main_dev.py    *)
(* every payload echoes file_name.                                         *)
(***************************************************************************)
C21_Payload ==
    \A r \in DOMAIN req :
        req[r].pc = "done" /\ req[r].path # "unauthorized" =>
            /\ req[r].resp.kind \in {"content", "error"}
            /\ version = "dev" => req[r].resp.file_name = req[r].file_name

\* every answer of the gateway ends the request, but for the 404 of
\* /images/generations, which sends the one fallback call
C21_Step ==
    \A r \in DOMAIN req :
        req[r].pc \in {"upstream", "image", "image_fallback"} /\ req'[r] # req[r] =>
            \/ req'[r].pc = "done" /\ req'[r].resp.kind \in {"content", "error"}
            \/ req[r].pc = "image" /\ req'[r].pc = "image_fallback"

C21_StructuredPayload == []C21_Payload /\ [][C21_Step]_vars

C21_Witness ==
    \E r \in DOMAIN req :
        /\ version = "dev"
        /\ req[r].pc = "done"
        /\ req[r].file_name = BadFile.name
        /\ req[r].answer.kind = "response" /\ ~req[r].answer.json_ok
        /\ req[r].resp = Payload("error", <<"Invalid JSON response from API">>, BadFile.name)

(***************************************************************************)
(* C22.  After any text-path request of main_dev.py or v1.2.0 that ends in *)
(* an error payload, the response cache and the usage counters are as they *)
(* were before the gateway answered, and the session has gained the user's *)
(* turn and no assistant turn.                                             *)
(***************************************************************************)
C22_ErrorStep(r) ==
    /\ version \in {"dev", "v1.2.0"}
    /\ Finished(r)
    /\ req[r].path = "text_miss"
    /\ req'[r].resp.kind = "error"

C22_AsStated ==
    [][\A r \in DOMAIN req :
          C22_ErrorStep(r) =>
              /\ response_cache' = response_cache
              /\ user_usage' = user_usage
              /\ chat_sessions' = chat_sessions
              /\ LET turns == chat_sessions'[req[r].session_id]
                 IN  /\ turns # <<>>
                     /\ turns[Len(turns)].role = "user"
                     /\ turns[Len(turns)].content = req[r].message]_vars

(***************************************************************************)
(* SpecLimit: main_dev.py with the demo user one request below the         *)
(* ceiling.  The state is the one the two logins and one counted request   *)
(* of the demo user (message "1", answered "ok", session "warm") leave;    *)
(* from there chat and image requests of both users interleave.            *)
(***************************************************************************)
InitLimit ==
    /\ version = "dev"
    /\ users = [i \in Emails |-> user_entry(version, Profile(i))]
    /\ user_usage =
           (ADMIN_EMAIL :> ZeroUsage)
           @@ (DEMO_EMAIL :> [request_count |-> DEMO_REQUEST_LIMIT - 1,
                              token_count |-> estimated_tokens(ReplyOk, Filler(1))])
    /\ session = (1 :> [user |-> LoggedIn(version, ADMIN_EMAIL), oauth_state |-> Absent])
                 @@ (2 :> [user |-> LoggedIn(version, DEMO_EMAIL), oauth_state |-> Absent])
    /\ next_state = 2
    /\ consumed = {1, 2}
    /\ cb = (1 :> DoneCallback(1)) @@ (2 :> DoneCallback(2))
    /\ increments = (ADMIN_EMAIL :> 0) @@ (DEMO_EMAIL :> DEMO_REQUEST_LIMIT - 1)
    /\ gateway_calls = (ADMIN_EMAIL :> 0) @@ (DEMO_EMAIL :> DEMO_REQUEST_LIMIT - 1)
    /\ api = NoAnswer
    /\ response_cache = WarmCache(1)
    /\ chat_sessions = (WarmSession :> WarmTurns(version, 1))
    /\ cache_stamp = [k \in CacheKeys(WarmCache(1)) |-> 1]
    /\ cache_origin = WarmOrigin(1, DEMO_EMAIL)
    /\ cache_clock = 1
    /\ req = [r \in ChatSlots |-> FreeSlot]

LimitArgs ==
    {Args(2, m, mo, "s1", None, None, FALSE) : m \in {Hi, HiYou}, mo \in {Gpt4, DallE}}
    \cup {Args(1, Hi, Gpt4, "s1", None, None, FALSE)}

NextLimit ==
    \/ \E r \in ChatSlots, a \in LimitArgs : ChatStart(r, a)
    \/ \E r \in ChatSlots, out \in ChatOutcomes : ChatResponse(r, out)
    \/ \E r \in ChatSlots, out \in ImageOutcomes : ImageResponse(r, out)
    \/ \E r \in ChatSlots, out \in ImageOutcomes : ImageFallbackResponse(r, out)

SpecLimit == InitLimit /\ [][NextLimit]_vars

(***************************************************************************)
(* C23.  The request ceiling is never overshot: in every reachable state,  *)
(* under any interleaving of chat and image requests of the same non-admin *)
(* user, request_count is at most DEMO_REQUEST_LIMIT.                      *)
(***************************************************************************)
C23_AsStated ==
    \A email \in DOMAIN user_usage :
        ~is_admin_user(email) => user_usage[email].request_count <= DEMO_REQUEST_LIMIT

(***************************************************************************)
(* C24.  The request cap bounds the spend: over any sequence of POST       *)
(* /api/chat by one non-admin user, the number of requests sent to the     *)
(* gateway on that user's behalf is at most DEMO_REQUEST_LIMIT, whatever   *)
(* the gateway answers.                                                    *)
(***************************************************************************)
C24_AsStated ==
    version = "dev" =>
        \A email \in DOMAIN gateway_calls :
            ~is_admin_user(email) => gateway_calls[email] <= DEMO_REQUEST_LIMIT

(***************************************************************************)
(* C25.  A cached reply is served only to an equivalent request: on a      *)
(* cache hit the prompt this request would have sent upstream (the model   *)
(* and the user content, the text extracted from the upload included) is   *)
(* the prompt of the request whose reply the cache holds; requests that    *)
(* differ in model, message, file name or file content never share an      *)
(* entry.                                                                  *)
(***************************************************************************)
\* slot q took, in this step, a request that was answered from the cache
HitStart(q) == Started(q) /\ req'[q].path = "text_hit"

C25_AsStated ==
    [][\A q \in DOMAIN req :
          HitStart(q) =>
              LET origin == cache_origin[req'[q].cache_key]
              IN  /\ origin.model = req'[q].model
                  /\ origin.user_content =
                         user_content_of(version, req'[q].message, req'[q].file_content,
                                         req'[q].file_name, NoLib)]_vars

(***************************************************************************)
(* C26.  The cache is isolated between users: the content returned on a    *)
(* cache hit was produced by an upstream call made for a request of the    *)
(* same user.                                                              *)
(***************************************************************************)
C26_AsStated ==
    [][\A q \in DOMAIN req :
          HitStart(q) => cache_origin[req'[q].cache_key].email = req'[q].email]_vars

(***************************************************************************)
(* SpecReauth: main_dev.py from process start with one browser: logins,    *)
(* logouts and chat requests of that browser, one request at a time.       *)
(***************************************************************************)
InitReauth ==
    /\ Init
    /\ version = "dev"

ReauthArgs == {Args(1, m, Gpt4, "s1", None, None, FALSE) : m \in {Hi, HiYou}}

NextReauth ==
    \/ \E ws \in Browsers : LoginGoogle(ws)
    \/ \E ws \in Browsers, code \in Codes, state \in StateParams :
           CallbackStart(ws, code, state)
    \/ \E ws \in Browsers, ok \in BOOLEAN : CallbackToken(ws, ok)
    \/ \E ws \in Browsers, e \in Emails : CallbackUserinfo(ws, Profile(e))
    \/ \E ws \in Browsers : Logout(ws)
    \/ \E r \in Slots, a \in ReauthArgs : ChatStart(r, a)
    \/ \E r \in Slots, out \in TextOutcomes : ChatResponse(r, out)

SpecReauth == InitReauth /\ [][NextReauth]_vars

(***************************************************************************)
(* C27.  Usage survives re-authentication: a logout and any number of new  *)
(* logins with the same email never decrease or reset the user's           *)
(* request_count and token_count, and a user the limit check denied before *)
(* is still denied after.  Stated over every step: no step removes a usage *)
(* record or lowers a counter, no step turns a denial into an admission,   *)
(* and the steps of the auth gateway leave every existing record as it is. *)
(***************************************************************************)
AuthStep == req' = req

C27_Step ==
    \A e \in DOMAIN user_usage :
        /\ e \in DOMAIN user_usage'
        /\ user_usage'[e].request_count >= user_usage[e].request_count
        /\ user_usage'[e].token_count >= user_usage[e].token_count
        /\ ~check_demo_limits(user_usage, e).ok => ~check_demo_limits(user_usage', e).ok
        /\ AuthStep => user_usage'[e] = user_usage[e]

C27_UsageSurvives == [][C27_Step]_vars

\* the demo user, logged in again with the second state token after the counters
\* reached the ceiling (the session's copy of the record, taken at that login,
\* shows it), is denied
C27_Witness ==
    /\ cb[1].result = "ok" /\ cb[1].state = 2
    /\ session[1].user # <<>>
    /\ session[1].user[1].email = DEMO_EMAIL
    /\ session[1].user[1].usage.request_count = DEMO_REQUEST_LIMIT
    /\ req[1].pc = "done" /\ req[1].path = "denied"
    /\ user_usage[DEMO_EMAIL].request_count = DEMO_REQUEST_LIMIT

(***************************************************************************)
(* SpecUsageApi: main_dev.py from process start with one browser: logins,  *)
(* logouts, image and chat requests, and GET /api/usage.                   *)
(***************************************************************************)
UsageApiArgs == {Args(1, Hi, mo, "s1", None, None, FALSE) : mo \in {Gpt4, DallE}}

NextUsageApi ==
    \/ \E ws \in Browsers : LoginGoogle(ws)
    \/ \E ws \in Browsers, state \in StateParams : CallbackStart(ws, "c", state)
    \/ \E ws \in Browsers : CallbackToken(ws, TRUE)
    \/ \E ws \in Browsers, e \in Emails : CallbackUserinfo(ws, Profile(e))
    \/ \E ws \in Browsers : Logout(ws)
    \/ \E r \in Slots, a \in UsageApiArgs : ChatStart(r, a)
    \/ \E r \in Slots, out \in TextOutcomes : ChatResponse(r, out)
    \/ \E r \in Slots, out \in ImageOutcomes : ImageResponse(r, out)
    \/ \E r \in Slots, out \in ImageOutcomes : ImageFallbackResponse(r, out)
    \/ \E ws \in Browsers : GetUsage(ws)

SpecUsageApi == InitReauth /\ [][NextUsageApi]_vars

(***************************************************************************)
(* C28.  The limit_reached flag of GET /api/usage is true exactly when     *)
(* check_demo_limits would deny a user whose record has the request_count  *)
(* and token_count the response reports.                                   *)
(***************************************************************************)
C28_AsStated ==
    api.op = "usage" /\ api.status = 200 /\ ~api.body.is_admin =>
        LET record == [request_count |-> api.body.request_count,
                       token_count |-> api.body.token_count]
        IN  api.body.limit_reached
                <=> ~check_demo_limits((DEMO_EMAIL :> record), DEMO_EMAIL).ok

(***************************************************************************)
(* C29.  In main_dev.py and v1.2.0, under any interleaving of concurrent   *)
(* chat requests on one session id, every assistant turn of a session is   *)
(* immediately preceded by the user turn of its request: the transcript    *)
(* alternates user, assistant.                                             *)
(***************************************************************************)
C29_AsStated ==
    \A sid \in DOMAIN chat_sessions :
        \A i \in 1..Len(chat_sessions[sid]) :
            chat_sessions[sid][i].role = "assistant" =>
                /\ i > 1
                /\ chat_sessions[sid][i - 1].role = "user"
                /\ \A r \in DOMAIN req :
                      /\ req[r].pc = "done" /\ req[r].session_id = sid
                      /\ req[r].resp.kind = "content"
                      /\ i = Len(chat_sessions[sid])
                      /\ chat_sessions[sid][i].content = req[r].resp.text
                      => chat_sessions[sid][i - 1].content = req[r].message

(***************************************************************************)
(* C30.  A state token is single-use and only the latest one is valid:     *)
(* after two login_google calls in one web session a callback presenting   *)
(* the first token is rejected with invalid_state, and a successful        *)
(* callback clears the stored token, so that a later callback presenting   *)
(* that token again is rejected with invalid_state and exchanges no code.  *)
(***************************************************************************)
\* GET /auth/google was served to browser ws in this step
Issued(ws) == session'[ws].oauth_state \notin {Absent, session[ws].oauth_state}

C30_Step ==
    \A ws \in DOMAIN cb :
        \* a token that is not the stored one, or that a successful callback presented
        \* before, is rejected before any exchange
        /\ /\ Arrived(ws)
           /\ cb'[ws].state # Absent
           /\ cb'[ws].state # session[ws].oauth_state \/ cb'[ws].state \in consumed
           => /\ cb'[ws].result = "invalid_state"
              /\ cb'[ws].pc = "done"
              /\ cb'[ws].exchanges = 0
              /\ session' = session
        \* the callback that signs in clears the stored token
        /\ cb'[ws] # cb[ws] /\ cb'[ws].result = "ok" => session'[ws].oauth_state = Absent
        \* login_google stores a token no login was given before, in place of the one
        \* stored until then
        /\ Issued(ws) =>
              /\ session'[ws].oauth_state > next_state
              /\ session'[ws].oauth_state \notin consumed
              /\ \A w \in DOMAIN session : session'[ws].oauth_state # session[w].oauth_state

\* the stored token is never one a successful callback presented
C30_Stored == \A ws \in DOMAIN session : session[ws].oauth_state \notin consumed

C30_SingleUse == []C30_Stored /\ [][C30_Step]_vars

\* the second token issued was presented by a callback that signed the browser in, and
\* the callback that presented it again was rejected without an exchange
C30_Witness ==
    \E ws \in DOMAIN cb :
        /\ cb[ws].result = "invalid_state"
        /\ cb[ws].exchanges = 0
        /\ cb[ws].state = 2
        /\ consumed = {2}
        /\ session[ws].user # <<>>
        /\ session[ws].oauth_state = Absent
====
